---- MODULE Spec2Model ----
(***************************************************************************)
(* Research agent: pipeline orchestration (ResearchAgent.research), the    *)
(* two-tier result cache, the search plugin's post-processing and the      *)
(* verification plugin, modelled from the JavaScript sources.              *)
(*                                                                         *)
(* Scores (relevance, quality, thresholds) are in hundredths: 80 is 0.8.   *)
(* Time is Date.now() in milliseconds.                                     *)
(***************************************************************************)
EXTENDS Integers, Sequences, FiniteSets, TLC

VARIABLES
  config,       \* this.config: the merged configuration of the agent
  env,          \* what surrounds the agent: plugin modules found, directories writable
  plugins,      \* this.plugins: the names registered in the Map
  initPc,       \* initializeAgent: index of the default plugin being loaded
  cache,        \* this.cache: Map cacheKey -> {data, timestamp}
  files,        \* cacheDir: file per cacheKey -> {data, timestamp}
  resultFiles,  \* resultStoragePath: file name (its Date.now() part) -> context
  history,      \* this.researchHistory
  clock,        \* Date.now()
  pc,           \* per research call: where the async function stands
  req,          \* per research call: its arguments and cache key
  ctx,          \* per research call: its researchContext
  ret,          \* per research call: <<>> or <<id of the context returned>>
  stamp,        \* per research call: the Date.now() its pending file write carries
  stages,       \* per research call: the capabilities and stages it invoked, in order
  events,       \* per research call: the events it emitted, in order
  doneBefore,   \* per research call: the calls that had settled when it was issued
  op,           \* a client calling setCachedResult / getCachedResult directly
  srch,         \* SearchPlugin.search on its own: input and output
  ver,          \* VerificationPlugin.verify on its own: input and output
  upd,          \* updateConfig on its own: the configuration object and the update
  emitter       \* the agent as an EventEmitter: listeners, agent-level events

vars == <<config, env, plugins, initPc, cache, files, resultFiles, history, clock,
          pc, req, ctx, ret, stamp, stages, events, doneBefore, op, srch, ver,
          upd, emitter>>

\* the variables of the stand-alone specifications
aside == <<op, srch, ver, upd>>

----------------------------------------------------------------------------
(* Bounds of the model *)

\* number of research calls issued on the agent (they may overlap)
NumCalls == 2
\* number of times the wall clock jumps ahead by one second
MaxTicks == 1
\* longest list of raw engine answers handed to the search post-processing
MaxRaw == 3
\* longest list of results handed to the verification plugin
MaxResults == 2

Calls == 1..NumCalls

----------------------------------------------------------------------------
(* Small generic helpers *)

Min(a, b) == IF a < b THEN a ELSE b
Max(a, b) == IF a > b THEN a ELSE b

\* Map.set / Map.delete on a function whose domain is the set of present keys
MapSet(m, k, v) == [x \in (DOMAIN m) \cup {k} |-> IF x = k THEN v ELSE m[x]]
MapDelete(m, k) == [x \in (DOMAIN m) \ {k} |-> m[x]]
EmptyMap == [x \in {} |-> 0]

----------------------------------------------------------------------------
(* Inputs: topics and options *)

\* a JavaScript value passed as topic: its typeof and, for a string, its text
TopicX == [type |-> "string", val |-> "X"]
TopicEmpty == [type |-> "string", val |-> ""]
TopicNumber == [type |-> "number", val |-> "42"]
Topics == {TopicX, TopicEmpty, TopicNumber}

\* an options object: its own fields in insertion order, each <<name, value>>
OptionsPT == << <<"persona", "p">>, <<"tone", "t">> >>
OptionsTP == << <<"tone", "t">>, <<"persona", "p">> >>
OptionsMenu == {OptionsPT, OptionsTP}

\* the fields an options object holds, whatever their insertion order
Fields(options) == {options[i] : i \in 1..Len(options)}

\* a validation that forgets the emptiness test
TopicValidTypeOnly(topic) == topic.type = "string"

\* research(): if (!topic || typeof topic !== 'string') throw
TopicValid(topic) == topic.type = "string" /\ topic.val # ""

RECURSIVE JoinFields(_)
JoinFields(options) ==
  IF options = <<>> THEN ""
  ELSE "\"" \o options[1][1] \o "\":\"" \o options[1][2] \o "\""
       \o (IF Len(options) > 1 THEN "," ELSE "") \o JoinFields(Tail(options))

\* JSON.stringify of an object of string fields: own fields in insertion order
JSONStringify(options) == "{" \o JoinFields(options) \o "}"

\* generateCacheKey: `${topic}_${JSON.stringify(options)}`
generateCacheKey(topic, options) == topic.val \o "_" \o JSONStringify(options)

----------------------------------------------------------------------------
(* Configuration (config/default.js merged with the user's configuration)  *)

AllPlugins == {"search", "analysis", "verification", "citation"}

\* config/default.js; storage.cacheTtl is one second here (86400 in the file)
ConfigDefault ==
  [ cacheEnabled |-> TRUE, cacheTtl |-> 1, persistResults |-> TRUE,
    verificationEnabled |-> TRUE, maxSources |-> 10,
    resultQualityThreshold |-> 70, pluginsEnabled |-> TRUE,
    defaultPlugins |-> <<"search", "analysis", "verification", "citation">>,
    provider |-> "openai", apiKey |-> "" ]

\* the configuration the repository's tests construct the agent with
ConfigTest ==
  [ConfigDefault EXCEPT !.apiKey = "test-key", !.maxSources = 2,
     !.verificationEnabled = FALSE, !.resultQualityThreshold = 10,
     !.cacheEnabled = FALSE, !.persistResults = FALSE]

\* plugins.enabled = false: every capability is missing
ConfigNoPlugins ==
  [ConfigDefault EXCEPT !.pluginsEnabled = FALSE, !.resultQualityThreshold = 90,
     !.maxSources = 1, !.persistResults = FALSE]

ConfigThreshold60 ==
  [ConfigDefault EXCEPT !.resultQualityThreshold = 60, !.apiKey = "key",
     !.maxSources = 2, !.persistResults = FALSE]

ConfigThreshold0 ==
  [ConfigDefault EXCEPT !.resultQualityThreshold = 0, !.maxSources = 0,
     !.verificationEnabled = FALSE]

\* the test configuration with verification on
ConfigVerifyOnly == [ConfigTest EXCEPT !.verificationEnabled = TRUE]

\* the test configuration with a provider queryLLM does not support
ConfigOtherProvider == [ConfigTest EXCEPT !.provider = "anthropic"]

\* the test configuration with research.maxSources = 1
ConfigOneSource == [ConfigTest EXCEPT !.maxSources = 1]

----------------------------------------------------------------------------
(* SearchPlugin: deduplication, ranking, filtering *)

Source(title, url, snippet, quality, relevance) ==
  [title |-> title, url |-> url, snippet |-> snippet,
   quality |-> quality, relevance |-> relevance]

\* deduplicateResults: results.filter with the seenUrls / seenTitles sets
RECURSIVE DedupFrom(_, _, _)
DedupFrom(results, seenUrls, seenTitles) ==
  IF results = <<>> THEN <<>>
  ELSE LET r == Head(results) IN
       IF r.url \in seenUrls \/ r.title \in seenTitles
       THEN DedupFrom(Tail(results), seenUrls, seenTitles)
       ELSE <<r>> \o DedupFrom(Tail(results), seenUrls \cup {r.url},
                               seenTitles \cup {r.title})

\* a deduplication that looks at the URL only
deduplicateByUrl(results) ==
  LET F[n \in 0..Len(results)] ==
        IF n = 0 THEN <<>>
        ELSE IF \E m \in 1..(n - 1) : results[m].url = results[n].url
             THEN F[n - 1] ELSE Append(F[n - 1], results[n])
  IN F[Len(results)]

deduplicateResults(results) == DedupFrom(results, {}, {})

\* (x || 0.5): a falsy score, 0 included, is replaced by 0.5
OrDefault(x) == IF x = 0 THEN 50 ELSE x

\* the comparator's aScore / bScore, in thousandths
RankScore(r) == OrDefault(r.relevance) * 6 + OrDefault(r.quality) * 4

\* Array.prototype.sort is stable: an element goes after those already placed
\* whose score is not smaller (comparator bScore - aScore)
RECURSIVE InsertRanked(_, _)
InsertRanked(sorted, r) ==
  IF sorted = <<>> THEN <<r>>
  ELSE IF RankScore(Head(sorted)) >= RankScore(r)
       THEN <<Head(sorted)>> \o InsertRanked(Tail(sorted), r)
       ELSE <<r>> \o sorted

RECURSIVE RankFrom(_, _)
RankFrom(sorted, rest) ==
  IF rest = <<>> THEN sorted
  ELSE RankFrom(InsertRanked(sorted, Head(rest)), Tail(rest))

rankResults(results) == RankFrom(<<>>, results)

\* rankedResults.filter(result => result.quality >= resultQualityThreshold)
RECURSIVE FilterQuality(_, _)
FilterQuality(results, threshold) ==
  IF results = <<>> THEN <<>>
  ELSE IF Head(results).quality >= threshold
       THEN <<Head(results)>> \o FilterQuality(Tail(results), threshold)
       ELSE FilterQuality(Tail(results), threshold)

\* SearchPlugin.search once the engines have answered with `raw`
SearchPostProcess(raw, threshold) ==
  FilterQuality(rankResults(deduplicateResults(raw)), threshold)

\* a fallback that finds nothing
fallbackSearchNone(topic) == <<>>

\* fallbackSearch: the single stub source
fallbackSearch(topic) ==
  << Source("General search results for: " \o topic.val, "#", "stub", 80, 90) >>

\* what the engines answer: the plugin's placeholder engines google and
\* semantic_scholar, one source each
RawEngines ==
  << Source("Google Search Results for: X", "https://www.google.com/search?q=X", "google", 80, 90),
     Source("Academic Papers on: X", "https://www.semanticscholar.org/search?q=X", "scholar", 90, 85) >>

\* a search capability answering three sources of quality 0.9, 0.5, 0.3
RawExample ==
  << Source("A", "https://a.edu/1", "sky", 90, 50),
     Source("B", "https://b.com/2", "skyloud", 50, 50),
     Source("C", "https://c.net/3", "twice", 30, 50) >>

----------------------------------------------------------------------------
(* The environment of the agent *)

\* which plugin modules require() finds, the cache files a previous session
\* left in cacheDir, what the search engines answer, whether the LLM endpoint
\* answers, whether writeFile succeeds in cacheDir / resultStoragePath, and
\* which registered capabilities throw when they are called
EnvFresh ==
  [found |-> AllPlugins, oldFiles |-> EmptyMap, engines |-> RawEngines,
   llmUp |-> TRUE, cacheDirOk |-> TRUE, resultDirOk |-> TRUE, throws |-> {}]
EnvOldFile ==
  [EnvFresh EXCEPT !.oldFiles =
     MapSet(EmptyMap, generateCacheKey(TopicX, OptionsPT),
            [data |-> 0, timestamp |-> 0])]
EnvFewPlugins ==
  [EnvFresh EXCEPT !.found = {"search", "citation"}, !.engines = RawExample,
                   !.llmUp = FALSE]
EnvExample == [EnvFresh EXCEPT !.engines = RawExample]
EnvDiskFull == [EnvFresh EXCEPT !.cacheDirOk = FALSE, !.resultDirOk = FALSE]
EnvSearchThrows == [EnvFresh EXCEPT !.throws = {"search"}]
EnvAnalysisThrows == [EnvFresh EXCEPT !.throws = {"analysis"}]
EnvVerificationThrows == [EnvFresh EXCEPT !.throws = {"verification"}]

Scenarios ==
  { <<ConfigDefault, EnvFresh>>, <<ConfigDefault, EnvOldFile>>,
    <<ConfigDefault, EnvDiskFull>>,
    <<ConfigTest, EnvFresh>>, <<ConfigNoPlugins, EnvFresh>>,
    <<ConfigThreshold60, EnvFewPlugins>>, <<ConfigThreshold60, EnvExample>>,
    <<ConfigThreshold0, EnvExample>>,
    <<ConfigTest, EnvSearchThrows>>, <<ConfigTest, EnvAnalysisThrows>>,
    <<ConfigVerifyOnly, EnvVerificationThrows>>,
    <<ConfigOtherProvider, EnvFresh>>, <<ConfigOneSource, EnvFresh>>,
    <<ConfigDefault, EnvVerificationThrows>> }

----------------------------------------------------------------------------
(* Text: a string is modelled as the sequence of its characters *)

UpperCase ==
  << "A","B","C","D","E","F","G","H","I","J","K","L","M",
     "N","O","P","Q","R","S","T","U","V","W","X","Y","Z" >>
LowerCase ==
  << "a","b","c","d","e","f","g","h","i","j","k","l","m",
     "n","o","p","q","r","s","t","u","v","w","x","y","z" >>
Digits == {"0","1","2","3","4","5","6","7","8","9"}

IsUpper(ch) == \E i \in 1..Len(UpperCase) : UpperCase[i] = ch
IsLower(ch) == \E i \in 1..Len(LowerCase) : LowerCase[i] = ch
\* \s
IsSpace(ch) == ch \in {" ", "\t", "\n"}
\* \w
IsWordChar(ch) == IsUpper(ch) \/ IsLower(ch) \/ ch \in Digits \/ ch = "_"
\* [.!?]
IsSentenceEnd(ch) == ch \in {".", "!", "?"}

LowerChar(ch) ==
  IF IsUpper(ch) THEN LowerCase[CHOOSE i \in 1..Len(UpperCase) : UpperCase[i] = ch]
  ELSE ch

\* String.prototype.toLowerCase
ToLowerCase(s) == [i \in 1..Len(s) |-> LowerChar(s[i])]

\* String.prototype.trim
RECURSIVE TrimLeft(_)
TrimLeft(s) ==
  IF s # <<>> /\ IsSpace(Head(s)) THEN TrimLeft(Tail(s)) ELSE s
RECURSIVE TrimRight(_)
TrimRight(s) ==
  IF s # <<>> /\ IsSpace(s[Len(s)]) THEN TrimRight(SubSeq(s, 1, Len(s) - 1)) ELSE s
Trim(s) == TrimRight(TrimLeft(s))

\* replace(/\s+/g, ' '): every run of whitespace becomes one space
RECURSIVE CollapseSpaces(_, _)
CollapseSpaces(s, inRun) ==
  IF s = <<>> THEN <<>>
  ELSE IF IsSpace(Head(s))
       THEN (IF inRun THEN <<>> ELSE <<" ">>) \o CollapseSpaces(Tail(s), TRUE)
       ELSE <<Head(s)>> \o CollapseSpaces(Tail(s), FALSE)

\* replace(/[^\w\s]/g, ''): drop what is neither a word character nor whitespace
StripPunctuation(s) == SelectSeq(s, LAMBDA ch : IsWordChar(ch) \/ IsSpace(ch))

\* split(/[.!?]+/): the pieces between runs of sentence enders (empty pieces kept)
RECURSIVE SplitFrom(_, _, _)
SplitFrom(s, piece, inRun) ==
  IF s = <<>> THEN <<piece>>
  ELSE IF IsSentenceEnd(Head(s))
       THEN IF inRun THEN SplitFrom(Tail(s), piece, TRUE)
            ELSE <<piece>> \o SplitFrom(Tail(s), <<>>, TRUE)
       ELSE SplitFrom(Tail(s), Append(piece, Head(s)), FALSE)

SplitSentences(s) == SplitFrom(s, <<>>, FALSE)

\* String.prototype.includes, and RegExp.test of a literal word
HasSub(s, w) ==
  \E i \in 0..(Len(s) - Len(w)) : \A j \in 1..Len(w) : s[i + j] = w[j]

\* "Water boils at 100 degrees. The sky is very blue today!"
TextSky ==
  << "W","a","t","e","r"," ","b","o","i","l","s"," ","a","t"," ","1","0",
     "0"," ","d","e","g","r","e","e","s","."," ","T","h","e"," ","s","k",
     "y"," ","i","s"," ","v","e","r","y"," ","b","l","u","e"," ","t","o",
     "d","a","y","!" >>

\* "the SKY is   very, blue today? A study shows cats sleep."
TextSkyLoud ==
  << "t","h","e"," ","S","K","Y"," ","i","s"," "," "," ","v","e","r","y",
     ","," ","b","l","u","e"," ","t","o","d","a","y","?"," ","A"," ","s",
     "t","u","d","y"," ","s","h","o","w","s"," ","c","a","t","s"," ","s",
     "l","e","e","p","." >>

\* "The sky is very blue today. The sky is very blue today."
TextTwice ==
  << "T","h","e"," ","s","k","y"," ","i","s"," ","v","e","r","y"," ","b",
     "l","u","e"," ","t","o","d","a","y","."," ","T","h","e"," ","s","k",
     "y"," ","i","s"," ","v","e","r","y"," ","b","l","u","e"," ","t","o",
     "d","a","y","." >>

\* "Too short. Tenth char! Eleven char"
TextShort ==
  << "T","o","o"," ","s","h","o","r","t","."," ","T","e","n","t","h"," ",
     "c","h","a","r","!"," ","E","l","e","v","e","n"," ","c","h","a","r" >>

\* "Comprehensive search results for X from Google"
TextGoogle ==
  << "C","o","m","p","r","e","h","e","n","s","i","v","e"," ","s","e","a",
     "r","c","h"," ","r","e","s","u","l","t","s"," ","f","o","r"," ","X",
     " ","f","r","o","m"," ","G","o","o","g","l","e" >>

\* "Academic research papers related to X"
TextScholar ==
  << "A","c","a","d","e","m","i","c"," ","r","e","s","e","a","r","c","h",
     " ","p","a","p","e","r","s"," ","r","e","l","a","t","e","d"," ","t",
     "o"," ","X" >>

\* "Preprint research papers on X from arXiv"
TextArxiv ==
  << "P","r","e","p","r","i","n","t"," ","r","e","s","e","a","r","c","h",
     " ","p","a","p","e","r","s"," ","o","n"," ","X"," ","f","r","o","m",
     " ","a","r","X","i","v" >>

\* "Search results for X"
TextStub ==
  << "S","e","a","r","c","h"," ","r","e","s","u","l","t","s"," ","f","o",
     "r"," ","X" >>

\* "Cats sleep all day. Dogs bark at night. Birds sing at dawn."
TextThree ==
  << "C","a","t","s"," ","s","l","e","e","p"," ","a","l","l"," ","d","a",
     "y","."," ","D","o","g","s"," ","b","a","r","k"," ","a","t"," ","n",
     "i","g","h","t","."," ","B","i","r","d","s"," ","s","i","n","g"," ",
     "a","t"," ","d","a","w","n","." >>

\* the text behind a content name
TextOf(name) ==
  CASE name = "sky" -> TextSky
    [] name = "skyloud" -> TextSkyLoud
    [] name = "twice" -> TextTwice
    [] name = "short" -> TextShort
    [] name = "google" -> TextGoogle
    [] name = "scholar" -> TextScholar
    [] name = "arxiv" -> TextArxiv
    [] name = "stub" -> TextStub
    [] name = "three" -> TextThree
    [] OTHER -> <<>>

\* /found|discovered|research|study|shows|indicates|reveals|demonstrates/
ClaimWords ==
  { <<"f","o","u","n","d">>,
    <<"d","i","s","c","o","v","e","r","e","d">>,
    <<"r","e","s","e","a","r","c","h">>,
    <<"s","t","u","d","y">>,
    <<"s","h","o","w","s">>,
    <<"i","n","d","i","c","a","t","e","s">>,
    <<"r","e","v","e","a","l","s">>,
    <<"d","e","m","o","n","s","t","r","a","t","e","s">> }

----------------------------------------------------------------------------
(* VerificationPlugin *)

\* a result of the pipeline: {source, content, analysis}; content is a content
\* name, and a falsy analysis field (absent, 0, '') is 0 or ""
Result(source, content, analysis) ==
  [source |-> source, content |-> content, analysis |-> analysis]

\* normalizeClaim
normalizeClaim(claim) ==
  Trim(StripPunctuation(CollapseSpaces(ToLowerCase(claim), FALSE)))

\* content.split(/[.!?]+/).map(s => s.trim()).filter(s => s.length > 10)
Sentences(result) ==
  LET pieces == SplitSentences(TextOf(result.content))
      trimmed == [i \in 1..Len(pieces) |-> Trim(pieces[i])]
  IN SelectSeq(trimmed, LAMBDA t : Len(t) > 10)

\* claimsMap: the Map as the sequence of its entries in insertion order
ClaimIndex(claimsMap, normalized) ==
  {i \in 1..Len(claimsMap) : claimsMap[i].claim = normalized}

ClaimPush(claimsMap, normalized, entry) ==
  IF ClaimIndex(claimsMap, normalized) = {}
  THEN Append(claimsMap, [claim |-> normalized, sources |-> <<entry>>])
  ELSE LET i == CHOOSE k \in ClaimIndex(claimsMap, normalized) : TRUE
       IN [claimsMap EXCEPT ![i].sources = Append(@, entry)]

RECURSIVE AddSentences(_, _, _)
AddSentences(claimsMap, result, sentences) ==
  IF sentences = <<>> THEN claimsMap
  ELSE AddSentences(
         ClaimPush(claimsMap, normalizeClaim(Head(sentences)),
                   [source |-> result.source.title, url |-> result.source.url,
                    content |-> Head(sentences)]),
         result, Tail(sentences))

RECURSIVE BuildClaimsMap(_, _)
BuildClaimsMap(claimsMap, results) ==
  IF results = <<>> THEN claimsMap
  ELSE BuildClaimsMap(AddSentences(claimsMap, Head(results), Sentences(Head(results))),
                      Tail(results))

\* crossRefs.sort((a, b) => b.count - a.count), stable
RECURSIVE InsertByCount(_, _)
InsertByCount(sorted, x) ==
  IF sorted = <<>> THEN <<x>>
  ELSE IF Head(sorted).count >= x.count
       THEN <<Head(sorted)>> \o InsertByCount(Tail(sorted), x)
       ELSE <<x>> \o sorted

RECURSIVE SortByCount(_, _)
SortByCount(sorted, rest) ==
  IF rest = <<>> THEN sorted
  ELSE SortByCount(InsertByCount(sorted, Head(rest)), Tail(rest))

\* performCrossReferencing
performCrossReferencing(results) ==
  LET claimsMap == BuildClaimsMap(<<>>, results)
      multi == SelectSeq(claimsMap, LAMBDA e : Len(e.sources) > 1)
      crossRefs == [i \in 1..Len(multi) |->
                      [claim |-> multi[i].claim, sources |-> multi[i].sources,
                       count |-> Len(multi[i].sources)]]
  IN SortByCount(<<>>, crossRefs)

\* /\d{4}|\d+/.test(sentence)
HasNumber(sentence) == \E i \in 1..Len(sentence) : sentence[i] \in Digits
HasSpecificClaim(sentence) == \E w \in ClaimWords : HasSub(sentence, w)

RECURSIVE FactChecksOf(_, _)
FactChecksOf(result, sentences) ==
  IF sentences = <<>> THEN <<>>
  ELSE (IF HasNumber(Head(sentences)) \/ HasSpecificClaim(Head(sentences))
        THEN << [claim |-> Head(sentences), source |-> result.source.title,
                 url |-> result.source.url, status |-> "unchecked",
                 confidence |-> 50] >>
        ELSE <<>>) \o FactChecksOf(result, Tail(sentences))

\* performFactChecking
RECURSIVE performFactChecking(_)
performFactChecking(results) ==
  IF results = <<>> THEN <<>>
  ELSE FactChecksOf(Head(results), Sentences(Head(results)))
       \o performFactChecking(Tail(results))

\* source.url.includes(part), for the URLs of the model
UrlIncludes(url, part) ==
  <<url, part>> \in
    { <<"https://a.edu/1", "edu">>, <<"https://b.com/2", "com">>,
      <<"https://d.gov/4", "gov">>, <<"https://e.org/5", "org">>,
      <<"https://www.google.com/search?q=X", "com">>,
      <<"https://www.semanticscholar.org/search?q=X", "org">>,
      <<"https://arxiv.org/search/?query=X", "org">> }

\* a clamp that forgets the lower end
ClampAbove(score) == Min(1000, score)

\* Math.max(0, Math.min(1, score)), in thousandths
Clamp01(score) == Max(0, Min(1000, score))

\* calculateCredibility, for one result; the score is in thousandths
CredibilityRaw(result) ==
  LET url == result.source.url
      a == result.analysis
      s0 == 500
      s1 == IF UrlIncludes(url, "edu") \/ UrlIncludes(url, "org") \/ UrlIncludes(url, "gov")
            THEN s0 + 200
            ELSE IF UrlIncludes(url, "com") THEN s0 + 100 ELSE s0
      s2 == IF a.quality # 0 THEN (s1 + a.quality * 10) \div 2 ELSE s1
      s3 == IF a.bias = "high" THEN s2 - 200
            ELSE IF a.bias = "medium" THEN s2 - 100 ELSE s2
      s4 == IF a.readability # 0
            THEN (IF a.readability < 20 THEN s3 - 100
                  ELSE IF a.readability > 70 THEN s3 + 100 ELSE s3)
            ELSE s3
  IN s4

CredibilityOf(result) == Clamp01(CredibilityRaw(result))

calculateCredibility(results) ==
  [i \in 1..Len(results) |->
     [source |-> results[i].source.title, url |-> results[i].source.url,
      credibility |-> CredibilityOf(results[i])]]

RECURSIVE SumCredibility(_)
SumCredibility(scores) ==
  IF scores = <<>> THEN 0 ELSE Head(scores).credibility + SumCredibility(Tail(scores))

\* a confidence that takes the mean of no scores as 0 and does not cap the
\* cross-reference term
calculateOverallConfidenceBare(crossRefs, scores) ==
  [num |-> Len(crossRefs) * 300 * 600 * Max(1, Len(scores))
             + SumCredibility(scores) * 400,
   den |-> Max(1, Len(scores))]

\* calculateOverallConfidence, in millionths (thousandths times thousandths)
calculateOverallConfidence(crossRefs, scores) ==
  LET crossRefConfidence == Min(1000, Len(crossRefs) * 300)
      avgTimesN == IF Len(scores) > 0 THEN SumCredibility(scores) ELSE 500
      n == IF Len(scores) > 0 THEN Len(scores) ELSE 1
  IN [num |-> crossRefConfidence * 600 * n + avgTimesN * 400, den |-> n]

\* generateVerificationSummary: the numbers the summary text is built from
generateVerificationSummary(crossRefs, factChecks, scores) ==
  [totalSources |-> Len(scores),
   highlyCredible |-> Len(SelectSeq(scores, LAMBDA c : c.credibility > 800)),
   crossRefCount |-> Len(crossRefs), factCheckCount |-> Len(factChecks)]

\* verify
verify(results) ==
  LET crossRefs == performCrossReferencing(results)
      factChecks == performFactChecking(results)
      scores == calculateCredibility(results)
  IN [status |-> "completed",
      confidence |-> calculateOverallConfidence(crossRefs, scores),
      cross_references |-> crossRefs,
      fact_checks |-> factChecks,
      credibility_scores |-> scores,
      verification_summary |-> generateVerificationSummary(crossRefs, factChecks, scores)]

----------------------------------------------------------------------------
(* AnalysisPlugin and the agent's per-stage helpers *)

\* AnalysisPlugin.analyze on the texts of the model (topic "X"): relevance,
\* quality, bias and readability as the plugin's heuristics compute them
analyze(content) ==
  LET row ==
        CASE content = "sky" -> <<0, 50, 95>>
          [] content = "skyloud" -> <<0, 65, 99>>
          [] content = "twice" -> <<0, 50, 100>>
          [] content = "short" -> <<0, 50, 82>>
          [] content = "google" -> <<100, 65, 31>>
          [] content = "scholar" -> <<100, 65, 49>>
          [] content = "arxiv" -> <<100, 65, 62>>
          [] OTHER -> <<100, 65, 95>>
  IN [relevance |-> row[1], sentiment |-> "neutral", quality |-> row[2],
      bias |-> "low", readability |-> row[3]]

\* analyzeContent's fallback object (it has no bias and no readability)
FallbackAnalysis ==
  [relevance |-> 80, sentiment |-> "neutral", quality |-> 70,
   bias |-> "", readability |-> 0]

\* analyzeContent
analyzeContent(content) ==
  IF "analysis" \in plugins THEN analyze(content) ELSE FallbackAnalysis

\* extractContent: source.snippet || 'Content not available'
extractContent(source) == IF source.snippet = "" THEN "unavailable" ELSE source.snippet

\* verifyInformation's fallback object: confidence 0.5, cross_references []
FallbackVerification ==
  [status |-> "not_verified", confidence |-> [num |-> 500000, den |-> 1],
   crossReferences |-> 0, factChecks |-> 0, credibility |-> <<>>]

\* what a context keeps of the plugin's verification object: the status, the
\* confidence, the lengths of the two lists and the credibility scores
VerificationKept(v) ==
  [status |-> v.status, confidence |-> v.confidence,
   crossReferences |-> Len(v.cross_references), factChecks |-> Len(v.fact_checks),
   credibility |-> [i \in 1..Len(v.credibility_scores) |->
                      v.credibility_scores[i].credibility]]

\* verifyInformation
verifyInformation(results) ==
  IF "verification" \in plugins THEN VerificationKept(verify(results))
  ELSE FallbackVerification

\* generateCitations: the citation plugin or the fallback, one entry per result
generateCitations(results) ==
  [i \in 1..Len(results) |->
     [title |-> results[i].source.title, url |-> results[i].source.url,
      by |-> IF "citation" \in plugins THEN "plugin" ELSE "fallback"]]

\* a query that only needs the API key
LLMAnswersWithKey == config.apiKey # ""

\* queryLLM answers only with an API key, the openai provider and a reachable endpoint
LLMAnswers == config.apiKey # "" /\ config.provider = "openai" /\ env.llmUp

\* generateAnalysis: the object returned when queryLLM answers / throws
AnalysisObject(ok) ==
  [summary |-> IF ok THEN "" ELSE "Analysis could not be generated",
   keyPoints |-> <<>>]

\* generateReport: the object returned when queryLLM answers / throws
ReportObject(ok, results) ==
  [content |-> IF ok THEN "llm" ELSE "Report could not be generated",
   citations |-> IF ok THEN generateCitations(results) ELSE <<>>]

----------------------------------------------------------------------------
(* The result cache *)

\* Date.now() - timestamp < cacheTtl * 1000
Fresh(timestamp, now) == now - timestamp < config.cacheTtl * 1000

\* a lookup that never finds the in-memory entry
MemoryHitNever(key) == FALSE

\* getCachedResult, in-memory part: a fresh entry is a hit
MemoryHit(key) == key \in DOMAIN cache /\ Fresh(cache[key].timestamp, clock)

\* a lookup that leaves the expired in-memory entry in place
MemoryAfterLookupKept(key) == cache

\* getCachedResult, in-memory part: an expired entry is deleted
MemoryAfterLookup(key) ==
  IF key \in DOMAIN cache /\ ~Fresh(cache[key].timestamp, clock)
  THEN MapDelete(cache, key) ELSE cache

\* getCachedResult, file part: the file parses and is fresh
FileHit(key) == key \in DOMAIN files /\ Fresh(files[key].timestamp, clock)

\* a file read that copies a fresh file record into this.cache
MemoryAfterFilePromoted(key) ==
  IF key \in DOMAIN files /\ clock - files[key].timestamp < config.cacheTtl * 1000
  THEN MapSet(cache, key, files[key]) ELSE cache

\* getCachedResult, file part: whatever the file holds, this.cache is not written
MemoryAfterFileRead(key) == cache

\* getCachedResult, file part: fs.unlink of the expired file
FilesAfterUnlink(key) == MapDelete(files, key)

\* a put that stamps the in-memory entry one TTL in the past
MemoryAfterSetStale(key, data) ==
  MapSet(cache, key, [data |-> data, timestamp |-> clock - config.cacheTtl * 1000])

\* a put that keeps the entry the map already holds
MemoryAfterSetIfAbsent(key, data) ==
  IF key \in DOMAIN cache THEN cache
  ELSE MapSet(cache, key, [data |-> data, timestamp |-> clock])

\* setCachedResult, in-memory part
MemoryAfterSet(key, data) == MapSet(cache, key, [data |-> data, timestamp |-> clock])

\* setCachedResult, file part: writeFile of {data, timestamp} answers
FilesAfterWrite(key, data, timestamp) ==
  IF env.cacheDirOk THEN MapSet(files, key, [data |-> data, timestamp |-> timestamp])
  ELSE files

----------------------------------------------------------------------------
(* Configuration objects and deepMerge *)

\* a JavaScript value: a string (its characters), a number or boolean (its
\* literal), an array of strings, or an object (its own fields in insertion
\* order, each <<key, value>>)
Str(chars) == [t |-> "string", text |-> chars, items |-> <<>>, fields |-> <<>>]
Lit(text) == [t |-> "literal", text |-> <<text>>, items |-> <<>>, fields |-> <<>>]
Arr(items) == [t |-> "array", text |-> <<>>, items |-> items, fields |-> <<>>]
Obj(fields) == [t |-> "object", text |-> <<>>, items |-> <<>>, fields |-> fields]
Undefined == [t |-> "undefined", text |-> <<>>, items |-> <<>>, fields |-> <<>>]

\* key in fields
Has(fields, key) == \E i \in 1..Len(fields) : fields[i][1] = key
\* fields[key]
Get(fields, key) == fields[CHOOSE i \in 1..Len(fields) : fields[i][1] = key][2]
\* fields[key] = value: an existing key keeps its place, a new one goes last
Put(fields, key, value) ==
  IF Has(fields, key)
  THEN [i \in 1..Len(fields) |->
          IF fields[i][1] = key THEN <<key, value>> ELSE fields[i]]
  ELSE Append(fields, <<key, value>>)

\* isObject: item && typeof item === 'object' && !Array.isArray(item)
isObject(item) == item.t = "object"

\* the property name of index i (i from 0)
IndexName(i) == <<"0", "1", "2", "3", "4", "5", "6", "7", "8", "9">>[i + 1]

\* { ...target }: the own enumerable properties; the elements of an array and
\* the characters of a string by index, nothing for a number or a boolean
Spread(target) ==
  CASE target.t = "object" -> target.fields
    [] target.t = "array" ->
         [i \in 1..Len(target.items) |-> <<IndexName(i - 1), Str(target.items[i])>>]
    [] target.t = "string" ->
         [i \in 1..Len(target.text) |-> <<IndexName(i - 1), Str(<<target.text[i]>>)>>]
    [] OTHER -> <<>>

\* deepMerge(target, source)
RECURSIVE deepMerge(_, _)
deepMerge(target, source) ==
  LET output[n \in 0..Len(source.fields)] ==
        IF n = 0 THEN Spread(target)
        ELSE LET key == source.fields[n][1]
                 value == source.fields[n][2]
             IN Put(output[n - 1], key,
                    IF isObject(value)
                    THEN IF ~Has(target.fields, key)
                         THEN value
                         ELSE deepMerge(Get(target.fields, key), value)
                    ELSE value)
  IN IF isObject(target) /\ isObject(source)
     THEN Obj(output[Len(source.fields)])
     ELSE Obj(Spread(target))

\* config/default.js, cut down to four sections
DefaultConfigObject ==
  Obj(<< <<"agent", Obj(<< <<"name", Str(<<"D", "R">>)>> >>)>>,
         <<"llm", Obj(<< <<"temperature", Lit("0.3")>>,
                         <<"customHeaders", Obj(<<>>)>>,
                         <<"timeout", Lit("30000")>> >>)>>,
         <<"research", Obj(<< <<"maxSources", Lit("10")>>,
                              <<"citationStyle", Str(<<"a", "p", "a">>)>>,
                              <<"searchEngines", Arr(<< <<"g">>, <<"s">> >>)>> >>)>>,
         <<"customization", Obj(<< <<"tone", Str(<<"p", "r", "o">>)>>,
                                   <<"domainExpertise", Arr(<<>>)>> >>)>> >>)

NoUpdate ==
  [config |-> DefaultConfigObject, before |-> DefaultConfigObject,
   newConfig |-> Obj(<<>>), events |-> <<>>]

----------------------------------------------------------------------------
(* The agent as an EventEmitter *)

\* emit(event): the listeners registered at that moment are invoked
Emit(em, event) ==
  [em EXCEPT !.emitted = Append(@, event),
             !.heard = IF event \in em.listeners THEN Append(@, event) ELSE @]

\* on(event, listener)
On(em, event) == [em EXCEPT !.listeners = @ \cup {event}]

\* super(): an emitter without listeners
NewEmitter == [listeners |-> {}, emitted |-> <<>>, heard |-> <<>>]

----------------------------------------------------------------------------
(* The agent: construction, plugin loading, the clock *)

IdleClient == [pc |-> "idle", key |-> "", data |-> 0, at |-> 0, log |-> <<>>]
NoSearch == [answers |-> <<>>, raw |-> <<>>, threshold |-> 0, done |-> FALSE,
             threw |-> FALSE, unique |-> <<>>, ranked |-> <<>>, out |-> <<>>]
NoVerify == [results |-> <<>>, done |-> FALSE, out |-> <<>>]

NoRequest == [topic |-> TopicEmpty, options |-> <<>>, key |-> ""]
NewContext == [sources |-> <<>>, results |-> <<>>, verification |-> <<>>,
               analysis |-> <<>>, report |-> <<>>]

\* the state when the constructor returns: initializeAgent has emitted agent:init
\* and stands at its first await, no plugin registered yet
Constructed ==
  /\ emitter = Emit(NewEmitter, "agent:init")
  /\ plugins = {}
  /\ initPc = IF config.pluginsEnabled THEN 1 ELSE Len(config.defaultPlugins) + 1
  /\ cache = EmptyMap
  /\ files = env.oldFiles
  /\ resultFiles = EmptyMap
  /\ history = <<>>
  /\ clock = 0
  /\ pc = [c \in Calls |-> "idle"]
  /\ req = [c \in Calls |-> NoRequest]
  /\ ctx = [c \in Calls |-> NewContext]
  /\ ret = [c \in Calls |-> <<>>]
  /\ stamp = [c \in Calls |-> 0]
  /\ stages = [c \in Calls |-> <<>>]
  /\ events = [c \in Calls |-> <<>>]
  /\ doneBefore = [c \in Calls |-> {}]
  /\ op = IdleClient

Init ==
  /\ \E sc \in Scenarios : config = sc[1] /\ env = sc[2]
  /\ Constructed
  /\ srch = NoSearch
  /\ ver = NoVerify
  /\ upd = NoUpdate

\* loadDefaultPlugins: one iteration of the loop (loadPlugin, then plugins.set)
LoadPlugin ==
  /\ UNCHANGED aside
  /\ initPc <= Len(config.defaultPlugins)
  /\ LET name == config.defaultPlugins[initPc] IN
       IF name \in env.found
       THEN /\ plugins' = plugins \cup {name}
            /\ emitter' = Emit(emitter, "plugin:loaded")
       ELSE UNCHANGED <<plugins, emitter>>
  /\ initPc' = initPc + 1
  /\ UNCHANGED <<config, env, cache, files, resultFiles, history, clock,
                 pc, req, ctx, ret, stamp, stages, events, doneBefore>>

\* time passes: Date.now() is a second later
Tick ==
  /\ UNCHANGED <<aside, emitter>>
  /\ clock \div 1000 < MaxTicks
  /\ clock' = clock + 1000
  /\ UNCHANGED <<config, env, plugins, initPc, cache, files, resultFiles, history,
                 pc, req, ctx, ret, stamp, stages, events, doneBefore>>

----------------------------------------------------------------------------
(* ResearchAgent.research, one action per stretch between two awaits *)

Settled(c) == pc[c] \in {"done", "failed"}

\* a loop that is always followed by the verification
AfterLoopAlways == "verify"

\* a loop that is followed by the report at once
AfterLoopToReport == "report"

\* where the call goes once the per-source loop is over
AfterLoop == IF config.verificationEnabled THEN "verify" ELSE "analysis"

\* a loop over every source found
LoopLengthAll(sources) == Len(sources)

\* the number of sources the loop visits: searchResults.slice(0, maxSources)
LoopLength(sources) == Min(Len(sources), config.maxSources)

\* the capability is registered and its call throws
Throws(name) == name \in plugins /\ name \in env.throws

\* a failure that hands the partial context back to the caller
FailPartial(c) ==
  /\ events' = [events EXCEPT ![c] = Append(@, "research:error")]
  /\ ret' = [ret EXCEPT ![c] = <<c>>]
  /\ pc' = [pc EXCEPT ![c] = "failed"]

\* research()'s catch block: research:error, then the error is thrown on
Fail(c) ==
  /\ events' = [events EXCEPT ![c] = Append(@, "research:error")]
  /\ ret' = ret
  /\ pc' = [pc EXCEPT ![c] = "failed"]

\* research(), from its call to the first await: research:start, validation,
\* the cache key, and the in-memory part of getCachedResult
Start(c, topic, options) ==
  /\ UNCHANGED <<aside, emitter>>
  /\ pc[c] = "idle"
  /\ \A d \in Calls : d < c => pc[d] # "idle"
  /\ doneBefore' = [doneBefore EXCEPT ![c] = {d \in Calls : Settled(d)}]
  /\ IF ~TopicValid(topic)
     THEN /\ req' = [req EXCEPT ![c] = [topic |-> topic, options |-> options, key |-> ""]]
          /\ events' = [events EXCEPT ![c] = <<"research:start", "research:error">>]
          /\ pc' = [pc EXCEPT ![c] = "failed"]
          /\ UNCHANGED <<cache, ret, stages>>
     ELSE LET key == generateCacheKey(topic, options) IN
          /\ req' = [req EXCEPT ![c] = [topic |-> topic, options |-> options, key |-> key]]
          /\ IF config.cacheEnabled
             THEN /\ stages' = [stages EXCEPT ![c] = <<"cache">>]
                  /\ cache' = MemoryAfterLookup(key)
                  /\ IF MemoryHit(key)
                     THEN /\ ret' = [ret EXCEPT ![c] = <<cache[key].data>>]
                          /\ events' = [events EXCEPT ![c] =
                                          <<"research:start", "research:cache-hit">>]
                          /\ pc' = [pc EXCEPT ![c] = "done"]
                     ELSE /\ events' = [events EXCEPT ![c] = <<"research:start">>]
                          /\ pc' = [pc EXCEPT ![c] = "readFile"]
                          /\ UNCHANGED ret
             ELSE /\ events' = [events EXCEPT ![c] = <<"research:start">>]
                  /\ pc' = [pc EXCEPT ![c] = "search"]
                  /\ UNCHANGED <<cache, ret, stages>>
  /\ UNCHANGED <<config, env, plugins, initPc, files, resultFiles, history, clock,
                 ctx, stamp>>

\* getCachedResult, file part: readFile has answered
ReadFile(c) ==
  /\ UNCHANGED <<aside, emitter>>
  /\ pc[c] = "readFile"
  /\ LET key == req[c].key IN
       IF FileHit(key)
       THEN /\ ret' = [ret EXCEPT ![c] = <<files[key].data>>]
            /\ events' = [events EXCEPT ![c] = Append(@, "research:cache-hit")]
            /\ pc' = [pc EXCEPT ![c] = "done"]
       ELSE /\ pc' = [pc EXCEPT ![c] = IF key \in DOMAIN files THEN "unlink" ELSE "search"]
            /\ UNCHANGED <<ret, events>>
  /\ cache' = MemoryAfterFileRead(req[c].key)
  /\ UNCHANGED <<config, env, plugins, initPc, files, resultFiles, history,
                 clock, req, ctx, stamp, stages, doneBefore>>

\* getCachedResult, file part: unlink of the expired file has answered
Unlink(c) ==
  /\ UNCHANGED <<aside, emitter>>
  /\ pc[c] = "unlink"
  /\ files' = FilesAfterUnlink(req[c].key)
  /\ pc' = [pc EXCEPT ![c] = "search"]
  /\ UNCHANGED <<config, env, plugins, initPc, cache, resultFiles, history, clock,
                 req, ctx, ret, stamp, stages, events, doneBefore>>

\* performSearch: the search plugin (on what the engines answer) or the fallback
performSearch(topic) ==
  IF "search" \in plugins
  THEN SearchPostProcess(env.engines, config.resultQualityThreshold)
  ELSE fallbackSearch(topic)

Search(c) ==
  /\ UNCHANGED <<aside, emitter>>
  /\ pc[c] = "search"
  /\ IF Throws("search")
     THEN /\ Fail(c)
          /\ UNCHANGED ctx
     ELSE LET sources == performSearch(req[c].topic) IN
          /\ ctx' = [ctx EXCEPT ![c].sources = sources]
          /\ pc' = [pc EXCEPT ![c] =
                      IF LoopLength(sources) > 0 THEN "extract" ELSE AfterLoop]
          /\ UNCHANGED <<ret, events>>
  /\ stages' = [stages EXCEPT ![c] = Append(@, "search")]
  /\ UNCHANGED <<config, env, plugins, initPc, cache, files, resultFiles, history,
                 clock, req, stamp, doneBefore>>

\* one iteration of the loop: extractContent, analyzeContent, results.push
Extract(c) ==
  /\ UNCHANGED <<aside, emitter>>
  /\ pc[c] = "extract"
  /\ IF Throws("analysis")
     THEN /\ Fail(c)
          /\ UNCHANGED ctx
     ELSE LET i == Len(ctx[c].results) + 1
              source == ctx[c].sources[i]
              content == extractContent(source)
          IN /\ ctx' = [ctx EXCEPT ![c].results =
                          Append(@, Result(source, content, analyzeContent(content)))]
             /\ pc' = [pc EXCEPT ![c] =
                         IF i < LoopLength(ctx[c].sources) THEN "extract" ELSE AfterLoop]
             /\ UNCHANGED <<ret, events>>
  /\ stages' = [stages EXCEPT ![c] = @ \o <<"extract", "analyze">>]
  /\ UNCHANGED <<config, env, plugins, initPc, cache, files, resultFiles, history,
                 clock, req, stamp, doneBefore>>

\* researchContext.verification = await this.verifyInformation(researchContext)
Verify(c) ==
  /\ UNCHANGED <<aside, emitter>>
  /\ pc[c] = "verify"
  /\ IF Throws("verification")
     THEN /\ Fail(c)
          /\ UNCHANGED ctx
     ELSE /\ ctx' = [ctx EXCEPT ![c].verification = <<verifyInformation(ctx[c].results)>>]
          /\ pc' = [pc EXCEPT ![c] = "analysis"]
          /\ UNCHANGED <<ret, events>>
  /\ stages' = [stages EXCEPT ![c] = Append(@, "verify")]
  /\ UNCHANGED <<config, env, plugins, initPc, cache, files, resultFiles, history,
                 clock, req, stamp, doneBefore>>

\* researchContext.analysis = await this.generateAnalysis(researchContext)
Analysis(c) ==
  /\ UNCHANGED <<aside, emitter>>
  /\ pc[c] = "analysis"
  /\ ctx' = [ctx EXCEPT ![c].analysis = <<AnalysisObject(LLMAnswers)>>]
  /\ pc' = [pc EXCEPT ![c] = "report"]
  /\ stages' = [stages EXCEPT ![c] = Append(@, "analysis")]
  /\ UNCHANGED <<config, env, plugins, initPc, cache, files, resultFiles, history,
                 clock, req, ret, stamp, events, doneBefore>>

\* a completion that turns a failed file write into a failure of the call
CompleteIfStored(c) ==
  IF env.cacheDirOk /\ env.resultDirOk
  THEN /\ events' = [events EXCEPT ![c] = Append(@, "research:complete")]
       /\ ret' = [ret EXCEPT ![c] = <<c>>]
       /\ pc' = [pc EXCEPT ![c] = "done"]
  ELSE Fail(c)

\* a completion that emits research:error after research:complete
CompleteThenError(c) ==
  /\ events' = [events EXCEPT ![c] = @ \o <<"research:complete", "research:error">>]
  /\ ret' = [ret EXCEPT ![c] = <<c>>]
  /\ pc' = [pc EXCEPT ![c] = "done"]

\* the call completes: research:complete, return researchContext
Complete(c) ==
  /\ events' = [events EXCEPT ![c] = Append(@, "research:complete")]
  /\ ret' = [ret EXCEPT ![c] = <<c>>]
  /\ pc' = [pc EXCEPT ![c] = "done"]

\* a history that takes two entries for one call
HistoryAfterPushTwice(c) == history \o <<c, c>>

\* this.researchHistory.push({id, topic, timestamp, results: researchContext})
HistoryAfterPush(c) == Append(history, c)

\* researchContext.report = await this.generateReport(researchContext), then the
\* history entry and, when enabled, setCachedResult up to its writeFile (both
\* Date.now() of that stretch read the same millisecond) or persistResults up
\* to its writeFile
Report(c) ==
  /\ UNCHANGED <<aside, emitter>>
  /\ pc[c] = "report"
  /\ ctx' = [ctx EXCEPT ![c].report = <<ReportObject(LLMAnswers, ctx[c].results)>>]
  /\ history' = HistoryAfterPush(c)
  /\ stages' = [stages EXCEPT ![c] = Append(@, "report")]
  /\ IF config.cacheEnabled
     THEN /\ cache' = MemoryAfterSet(req[c].key, c)
          /\ stamp' = [stamp EXCEPT ![c] = clock]
          /\ pc' = [pc EXCEPT ![c] = "writeCache"]
          /\ UNCHANGED <<events, ret>>
     ELSE /\ UNCHANGED cache
          /\ IF config.persistResults
             THEN /\ stamp' = [stamp EXCEPT ![c] = clock]
                  /\ pc' = [pc EXCEPT ![c] = "persist"]
                  /\ UNCHANGED <<events, ret>>
             ELSE /\ Complete(c)
                  /\ UNCHANGED stamp
  /\ UNCHANGED <<config, env, plugins, initPc, files, resultFiles, clock, req,
                 doneBefore>>

\* setCachedResult: the cache file's writeFile has answered (written, or failed
\* and logged), then persistResults up to its writeFile
WriteCache(c) ==
  /\ UNCHANGED <<aside, emitter>>
  /\ pc[c] = "writeCache"
  /\ files' = FilesAfterWrite(req[c].key, c, stamp[c])
  /\ stages' = [stages EXCEPT ![c] = Append(@, "cacheWrite")]
  /\ IF config.persistResults
     THEN /\ stamp' = [stamp EXCEPT ![c] = clock]
          /\ pc' = [pc EXCEPT ![c] = "persist"]
          /\ UNCHANGED <<events, ret>>
     ELSE /\ Complete(c)
          /\ UNCHANGED stamp
  /\ UNCHANGED <<config, env, plugins, initPc, cache, resultFiles, history, clock,
                 req, ctx, doneBefore>>

\* persistResults: the result file's writeFile has answered (written, or failed
\* and logged); the file is research_<sessionId>_<Date.now()>.json
Persist(c) ==
  /\ UNCHANGED <<aside, emitter>>
  /\ pc[c] = "persist"
  /\ resultFiles' = IF env.resultDirOk THEN MapSet(resultFiles, stamp[c], c) ELSE resultFiles
  /\ stages' = [stages EXCEPT ![c] = Append(@, "persist")]
  /\ Complete(c)
  /\ UNCHANGED <<config, env, plugins, initPc, cache, files, history, clock,
                 req, ctx, stamp, doneBefore>>

Next ==
  \/ LoadPlugin
  \/ Tick
  \/ \E c \in Calls, topic \in Topics, options \in OptionsMenu : Start(c, topic, options)
  \/ \E c \in Calls : ReadFile(c)
  \/ \E c \in Calls : Unlink(c)
  \/ \E c \in Calls : Search(c)
  \/ \E c \in Calls : Extract(c)
  \/ \E c \in Calls : Verify(c)
  \/ \E c \in Calls : Analysis(c)
  \/ \E c \in Calls : Report(c)
  \/ \E c \in Calls : WriteCache(c)
  \/ \E c \in Calls : Persist(c)

Spec == Init /\ [][Next]_vars

----------------------------------------------------------------------------
(* The cache on its own: a client calls setCachedResult and getCachedResult *)
(* of the agent directly, one call after the other                          *)

CacheKeys == {generateCacheKey(TopicX, o) : o \in OptionsMenu}
Payloads == {1, 2}

agentIdle == <<config, env, plugins, initPc, resultFiles, history,
               pc, req, ctx, ret, stamp, stages, events, doneBefore, srch, ver,
               upd, emitter>>

\* the client's record of its last two finished calls
Logged(entry) ==
  IF Len(op.log) < 2 THEN Append(op.log, entry) ELSE <<op.log[2], entry>>

PutEntry(key, data, at) ==
  [kind |-> "put", key |-> key, data |-> <<data>>, at |-> at]
GetEntry(key, result, at) ==
  [kind |-> "get", key |-> key, data |-> result, at |-> at]

\* setCachedResult(key, data) up to its writeFile (or to its end, cache disabled)
PutStart(key, data) ==
  /\ op.pc = "idle"
  /\ cache' = MemoryAfterSet(key, data)
  /\ op' = IF config.cacheEnabled
           THEN [op EXCEPT !.pc = "putFile", !.key = key, !.data = data, !.at = clock]
           ELSE [op EXCEPT !.log = Logged(PutEntry(key, data, clock))]
  /\ UNCHANGED <<files, clock>>
  /\ UNCHANGED agentIdle

\* setCachedResult: writeFile has answered
PutDone ==
  /\ op.pc = "putFile"
  /\ files' = FilesAfterWrite(op.key, op.data, op.at)
  /\ op' = [op EXCEPT !.pc = "idle", !.log = Logged(PutEntry(op.key, op.data, op.at))]
  /\ UNCHANGED <<cache, clock>>
  /\ UNCHANGED agentIdle

\* getCachedResult(key) up to its readFile (or to its end)
GetStart(key) ==
  /\ op.pc = "idle"
  /\ cache' = MemoryAfterLookup(key)
  /\ op' = IF MemoryHit(key)
           THEN [op EXCEPT !.log = Logged(GetEntry(key, <<cache[key].data>>, clock))]
           ELSE IF config.cacheEnabled
                THEN [op EXCEPT !.pc = "getFile", !.key = key, !.at = clock]
                ELSE [op EXCEPT !.log = Logged(GetEntry(key, <<>>, clock))]
  /\ UNCHANGED <<files, clock>>
  /\ UNCHANGED agentIdle

\* getCachedResult: readFile has answered (or thrown: no such file)
GetFile ==
  /\ op.pc = "getFile"
  /\ op' = IF FileHit(op.key)
           THEN [op EXCEPT !.pc = "idle",
                           !.log = Logged(GetEntry(op.key, <<files[op.key].data>>, op.at))]
           ELSE IF op.key \in DOMAIN files
                THEN [op EXCEPT !.pc = "getUnlink"]
                ELSE [op EXCEPT !.pc = "idle",
                                !.log = Logged(GetEntry(op.key, <<>>, op.at))]
  /\ cache' = MemoryAfterFileRead(op.key)
  /\ UNCHANGED <<files, clock>>
  /\ UNCHANGED agentIdle

\* getCachedResult: unlink has answered; return null
GetUnlink ==
  /\ op.pc = "getUnlink"
  /\ files' = FilesAfterUnlink(op.key)
  /\ op' = [op EXCEPT !.pc = "idle", !.log = Logged(GetEntry(op.key, <<>>, op.at))]
  /\ UNCHANGED <<cache, clock>>
  /\ UNCHANGED agentIdle

NextCache ==
  \/ Tick
  \/ \E key \in CacheKeys, data \in Payloads : PutStart(key, data)
  \/ PutDone
  \/ \E key \in CacheKeys : GetStart(key)
  \/ GetFile
  \/ GetUnlink

SpecCache == Init /\ [][NextCache]_vars

----------------------------------------------------------------------------
(* Properties of research() and of the cache *)

Range(seq) == {seq[n] : n \in 1..Len(seq)}

\* C1: a research call whose topic is empty or not a string is rejected
\* (research:start, then research:error) and has invoked nothing: no cache key,
\* no cache lookup, no search, extraction, analysis, verification or synthesis,
\* no context, no history entry, no file.
C1_InvalidTopicRejected ==
  \A c \in Calls :
    (pc[c] # "idle" /\ (req[c].topic.type # "string" \/ req[c].topic.val = ""))
    => /\ pc[c] = "failed"
       /\ stages[c] = <<>>
       /\ events[c] = <<"research:start", "research:error">>
       /\ ret[c] = <<>>
       /\ req[c].key = ""
       /\ ctx[c] = NewContext
       /\ c \notin Range(history)
       /\ \A k \in DOMAIN cache : cache[k].data # c
       /\ \A k \in DOMAIN files : files[k].data # c
       /\ \A k \in DOMAIN resultFiles : resultFiles[k] # c

\* both kinds of invalid topic have been rejected
C1_Witness ==
  /\ pc[1] = "failed" /\ req[1].topic = TopicEmpty
  /\ pc[2] = "failed" /\ req[2].topic = TopicNumber

\* call i returned before call c was issued, for the same cache key
Sequential(i, c, key) ==
  /\ i # c
  /\ pc[i] = "done"
  /\ req[i].key = key

\* the record is within its TTL at this Date.now()
WithinTtl(record) == clock - record.timestamp < config.cacheTtl * 1000

\* C2: with the cache enabled, when research(t, o) is called after an earlier
\* research(t, o) has returned and the lookup finds the entry of that earlier
\* call within its TTL (in memory when the call starts, or in the file when
\* readFile answers), the call returns the earlier call's payload, emits
\* cache-hit, and runs no search, analysis, verification or synthesis: nothing is
\* added to the history and no file is written.
C2_WarmCacheIdempotent ==
  [][\A c, i \in Calls :
       LET key == req'[c].key
           inMemory == /\ pc[c] = "idle" /\ pc'[c] # "idle"
                       /\ req'[c].topic.type = "string" /\ req'[c].topic.val # ""
                       /\ i \in doneBefore'[c]
                       /\ key \in DOMAIN cache
                       /\ WithinTtl(cache[key])
                       /\ <<cache[key].data>> = ret[i]
           inFile == /\ pc[c] = "readFile" /\ pc'[c] # "readFile"
                     /\ i \in doneBefore[c]
                     /\ key \in DOMAIN files
                     /\ WithinTtl(files[key])
                     /\ <<files[key].data>> = ret[i]
       IN (config.cacheEnabled /\ Sequential(i, c, key) /\ (inMemory \/ inFile))
          => /\ pc'[c] = "done"
             /\ ret'[c] = ret[i]
             /\ stages'[c] = <<"cache">>
             /\ events'[c] = <<"research:start", "research:cache-hit">>
             /\ ctx'[c] = NewContext
             /\ UNCHANGED <<history, files, resultFiles, cache>>]_vars

\* the second call was issued after the first had run the pipeline and
\* returned, and was answered from the cache with the first call's context
C2_Witness ==
  /\ pc[1] = "done" /\ pc[2] = "done"
  /\ 1 \in doneBefore[2]
  /\ req[1].key = req[2].key
  /\ "report" \in Range(stages[1])
  /\ ret[1] = <<1>> /\ ret[2] = <<1>>
  /\ stages[2] = <<"cache">>

\* C5: two calls with the same topic whose options hold the same fields with
\* the same values get the same cache key, whatever the order in which the
\* fields were inserted.
C5_KeyIgnoresFieldOrder ==
  \A i, j \in Calls :
    (/\ pc[i] \notin {"idle", "failed"} /\ pc[j] \notin {"idle", "failed"}
     /\ req[i].topic = req[j].topic
     /\ Fields(req[i].options) = Fields(req[j].options))
    => req[i].key = req[j].key

\* C8: once the search stage of a call is over, context.sources holds exactly
\* the deduplicated answers of the search path taken (the search plugin's
\* engines, or the fallback stub) whose quality is at least
\* research.resultQualityThreshold.
C8_SourcesMeetThreshold ==
  \A c \in Calls :
    "search" \in Range(stages[c])
    => \E raw \in {env.engines, fallbackSearch(req[c].topic)} :
         Range(ctx[c].sources) =
           {r \in Range(deduplicateResults(raw)) : r.quality >= config.resultQualityThreshold}

----------------------------------------------------------------------------
(* Properties of the cache called directly *)

\* the client's last two finished calls are put(k, v) then get(k)
PutThenGet ==
  /\ op.pc = "idle"
  /\ Len(op.log) = 2
  /\ op.log[1].kind = "put" /\ op.log[2].kind = "get"
  /\ op.log[1].key = op.log[2].key

\* C3: setCachedResult(k, v) followed by getCachedResult(k), with no call in
\* between and less than the TTL between the two, returns v.
C3_RoundTrip ==
  (PutThenGet /\ op.log[2].at - op.log[1].at < config.cacheTtl * 1000)
  => op.log[2].data = op.log[1].data

\* a round trip has happened with the file tier disabled, and one with it on
C3_Witness ==
  /\ PutThenGet
  /\ op.log[2].at - op.log[1].at < config.cacheTtl * 1000
  /\ op.log[2].data = <<2>>
  /\ ~config.cacheEnabled

\* C4: when getCachedResult(k) is called a TTL or more after the entry for k
\* was put, it reports a miss, and when it returns neither the in-memory map
\* nor the cache directory holds an entry for k.
C4_ExpiredPurged ==
  (PutThenGet /\ op.log[2].at - op.log[1].at >= config.cacheTtl * 1000)
  => /\ op.log[2].data = <<>>
     /\ op.log[2].key \notin DOMAIN cache
     /\ op.log[2].key \notin DOMAIN files

\* an entry written to both tiers has expired and been looked up
C4_Witness ==
  /\ PutThenGet
  /\ op.log[2].at - op.log[1].at >= config.cacheTtl * 1000
  /\ config.cacheEnabled /\ env.cacheDirOk
  /\ op.log[2].data = <<>>

----------------------------------------------------------------------------
(* SearchPlugin.search on its own: engines that answer or throw, and the    *)
(* post-processing of what they answered, for every short list of answers  *)

\* engine answers: a shared URL, a shared title, zero scores, equal scores
SourceMenu ==
  { Source("A", "https://a.edu/1", "sky", 90, 50),
    Source("B", "https://a.edu/1", "skyloud", 50, 50),
    Source("B", "https://b.com/2", "twice", 30, 70),
    Source("C", "https://c.net/3", "short", 0, 0),
    Source("D", "https://d.gov/4", "sky", 40, 40),
    Source("E", "https://e.org/5", "sky", 100, 100) }

Thresholds == {0, 60}

\* all sequences over S of length at most n
SeqsUpTo(S, n) == UNION {[1..k -> S] : k \in 0..n}

\* this.searchEngines: the Map of the engines of the configuration, which
\* iterates in the order of registration
searchEngines == <<"google", "semantic_scholar", "arxiv">>

\* what a call of an engine does: it throws, or it returns a list of results
Threw == [threw |-> TRUE, results |-> <<>>]
Answered(results) == [threw |-> FALSE, results |-> results]

\* the ways to cut list into n consecutive pieces
RECURSIVE Splits(_, _)
Splits(list, n) ==
  IF n = 1 THEN {<<list>>}
  ELSE UNION { { <<SubSeq(list, 1, i)>> \o rest :
                   rest \in Splits(SubSeq(list, i + 1, Len(list)), n - 1) } :
               i \in 0..Len(list) }

\* a variant of the loop over the engines without the catch clause: the first
\* engine that throws ends the loop, and the loop throws
engineLoopUncaught(answers) ==
  LET results[n \in 0..Len(answers)] ==
        IF n = 0 THEN <<>> ELSE results[n - 1] \o answers[n].results
  IN IF \E e \in DOMAIN answers : answers[e].threw THEN Threw
     ELSE Answered(results[Len(answers)])

\* the loop over the engines: the results of an engine are pushed onto results;
\* an engine that throws is caught and logged, and the loop goes on, so the
\* loop itself always completes
engineLoop(answers) ==
  LET results[n \in 0..Len(answers)] ==
        IF n = 0 THEN <<>>
        ELSE IF answers[n].threw THEN results[n - 1]
        ELSE results[n - 1] \o answers[n].results
  IN Answered(results[Len(answers)])

InitSearch ==
  /\ config = ConfigDefault /\ env = EnvFresh
  /\ Constructed
  /\ \E raw \in SeqsUpTo(SourceMenu, MaxRaw), threshold \in Thresholds,
        failed \in SUBSET DOMAIN searchEngines :
       \E split \in Splits(raw, Len(searchEngines)) :
         srch = [NoSearch EXCEPT
                   !.answers = [e \in DOMAIN searchEngines |->
                                  IF e \in failed THEN Threw
                                  ELSE Answered(split[e])],
                   !.threshold = threshold]
  /\ ver = NoVerify
  /\ upd = NoUpdate

\* search(): ask every engine in turn, then deduplicate, rank, filter
RunSearch ==
  /\ ~srch.done
  /\ LET loop == engineLoop(srch.answers)
         uniqueResults == deduplicateResults(loop.results)
         rankedResults == rankResults(uniqueResults)
     IN srch' = [srch EXCEPT !.done = TRUE,
                             !.threw = loop.threw,
                             !.raw = loop.results,
                             !.unique = uniqueResults,
                             !.ranked = rankedResults,
                             !.out = FilterQuality(rankedResults, srch.threshold)]
  /\ UNCHANGED <<config, env, plugins, initPc, cache, files, resultFiles, history,
                 clock, pc, req, ctx, ret, stamp, stages, events, doneBefore, op, ver,
                 upd, emitter>>

NextSearch == RunSearch

SpecSearch == InitSearch /\ [][NextSearch]_vars

\* the elements of seq at the positions in K, in their order
AtPositions(seq, K) ==
  LET F[n \in 0..Len(seq)] ==
        IF n = 0 THEN <<>>
        ELSE IF n \in K THEN Append(F[n - 1], seq[n]) ELSE F[n - 1]
  IN F[Len(seq)]

Conflict(a, b) == a.url = b.url \/ a.title = b.title

\* C6: the output of deduplicateResults is the input restricted to a set of
\* positions (so the kept sources stay in their original order) in which no
\* two sources share a URL or a title; every dropped source shares its URL or
\* its title with a kept source that comes earlier (the first occurrence is the
\* one kept); and the number kept is at most the number of distinct
\* (url, title) pairs of the input.
C6_Deduplicated ==
  srch.done =>
    LET in == srch.raw
        out == srch.unique
    IN /\ \E K \in SUBSET (1..Len(in)) :
            /\ out = AtPositions(in, K)
            /\ \A m, n \in K : m # n => ~Conflict(in[m], in[n])
            /\ \A n \in (1..Len(in)) \ K :
                 \E m \in K : m < n /\ Conflict(in[m], in[n])
       /\ Len(out) <= Cardinality({<<in[n].url, in[n].title>> : n \in 1..Len(in)})

\* a list with a shared URL and a shared title has been deduplicated: the
\* second source was dropped for its URL, the third kept although it has the
\* title of the dropped one
C6_Witness ==
  /\ srch.done
  /\ Len(srch.raw) = 3
  /\ srch.raw[1].url = srch.raw[2].url /\ srch.raw[1].title # srch.raw[2].title
  /\ srch.raw[2].title = srch.raw[3].title /\ srch.raw[2].url # srch.raw[3].url
  /\ srch.unique = <<srch.raw[1], srch.raw[3]>>

\* 0.6 x relevance + 0.4 x quality of the source's own values, in thousandths
OwnScore(r) == r.relevance * 6 + r.quality * 4

\* the position of a source in a list without duplicates
PositionIn(seq, r) == CHOOSE n \in 1..Len(seq) : seq[n] = r

\* C7: the output of rankResults holds the same sources as its input, in
\* descending order of 0.6 x relevance + 0.4 x quality of each source's own
\* values (0 included), sources of equal score in their original order.
C7_RankedByOwnScores ==
  srch.done =>
    LET in == srch.unique
        out == srch.ranked
    IN /\ Len(out) = Len(in) /\ Range(out) = Range(in)
       /\ \A m, n \in 1..Len(out) :
            m < n => \/ OwnScore(out[m]) > OwnScore(out[n])
                     \/ /\ OwnScore(out[m]) = OwnScore(out[n])
                        /\ PositionIn(in, out[m]) < PositionIn(in, out[n])

----------------------------------------------------------------------------
(* VerificationPlugin.verify on its own, for short lists of results *)

\* results to cross-reference: each of three sources with each text
TextResults ==
  { Result(Source(t[1], t[2], content, 80, 90), content, analyze(content)) :
      t \in { <<"A", "https://a.edu/1">>, <<"B", "https://b.com/2">>,
              <<"C", "https://c.net/3">> },
      content \in {"sky", "skyloud", "twice", "short"} }

\* results to score: every domain with every analysis; a field the analysis
\* lacks is 0 or "", and a quality may lie outside [0, 1]
ScoredResults ==
  { Result(Source("S", url, "sky", 80, 90), "sky",
           [relevance |-> 50, sentiment |-> "neutral", quality |-> quality,
            bias |-> bias, readability |-> readability]) :
      url \in { "https://a.edu/1", "https://b.com/2", "https://c.net/3",
                "https://d.gov/4", "https://e.org/5" },
      quality \in {0, 5, 50, 100, 300, -200},
      bias \in {"", "low", "medium", "high"},
      readability \in {0, 10, 50, 90} }

\* results that share three sentences, from two academic sources, with an
\* analysis of quality 0.9 (credibility 0.8 each)
ExampleResults ==
  { Result(Source(t[1], t[2], "three", 80, 90), "three",
           [relevance |-> 50, sentiment |-> "neutral", quality |-> 90,
            bias |-> "low", readability |-> 50]) :
      t \in { <<"A", "https://a.edu/1">>, <<"D", "https://d.gov/4">> } }

\* the results of a context come from deduplicated sources
DistinctSources(results) ==
  \A m, n \in 1..Len(results) :
    m # n => ~Conflict(results[m].source, results[n].source)

InitVerify ==
  /\ config = ConfigDefault /\ env = EnvFresh
  /\ Constructed
  /\ srch = NoSearch
  /\ upd = NoUpdate
  /\ \E results \in SeqsUpTo(TextResults, MaxResults) \cup SeqsUpTo(ScoredResults, 1)
                     \cup SeqsUpTo(ExampleResults, MaxResults) :
       /\ DistinctSources(results)
       /\ ver = [NoVerify EXCEPT !.results = results]

\* verify(researchContext)
RunVerify ==
  /\ ~ver.done
  /\ ver' = [ver EXCEPT !.done = TRUE, !.out = verify(ver.results)]
  /\ UNCHANGED <<config, env, plugins, initPc, cache, files, resultFiles, history,
                 clock, pc, req, ctx, ret, stamp, stages, events, doneBefore, op, srch,
                 upd, emitter>>

NextVerify == RunVerify

SpecVerify == InitVerify /\ [][NextVerify]_vars

\* the results (by position) that hold a segment whose normalized text is claim
Holders(results, claim) ==
  {i \in 1..Len(results) :
     \E n \in 1..Len(Sentences(results[i])) :
       normalizeClaim(Sentences(results[i])[n]) = claim}

\* C9: the count of every listed cross-reference is the number of distinct
\* sources holding a segment with that normalized text, and no listed claim is
\* held by exactly one source.
C9_CountsDistinctSources ==
  ver.done =>
    \A n \in 1..Len(ver.out.cross_references) :
      LET x == ver.out.cross_references[n]
          holders == Holders(ver.results, x.claim)
      IN x.count = Cardinality(holders) /\ Cardinality(holders) # 1

\* C10: every credibility score calculateCredibility produces is between 0 and
\* 1 (0 and 1000 thousandths).
C10_CredibilityInRange ==
  ver.done =>
    \A n \in 1..Len(ver.out.credibility_scores) :
      /\ ver.out.credibility_scores[n].credibility >= 0
      /\ ver.out.credibility_scores[n].credibility <= 1000

\* a result whose unclamped score is negative with every input in range
\* (no domain bonus, quality 0.05, high bias, readability 0.1) scored 0
C10_Witness ==
  /\ ver.done
  /\ Len(ver.results) = 1
  /\ ver.results[1].source.url = "https://c.net/3"
  /\ ver.results[1].analysis.quality = 5
  /\ ver.results[1].analysis.bias = "high"
  /\ ver.results[1].analysis.readability = 10
  /\ ver.out.credibility_scores[1].credibility = 0

\* C11: the overall confidence is 0.6 x min(1, 0.3 n) + 0.4 m, n the number of
\* cross-referenced claims and m the mean of the credibility scores (0.5 when
\* there is none), and it lies in [0, 1]. As a fraction num / den in
\* millionths: den is the number of scores (1 when there is none).
C11_ConfidenceFormula ==
  ver.done =>
    LET n == Len(ver.out.cross_references)
        scores == ver.out.credibility_scores
        Sum[k \in 0..Len(scores)] ==
          IF k = 0 THEN 0 ELSE Sum[k - 1] + scores[k].credibility
        crossTerm == IF n * 300 < 1000 THEN n * 300 ELSE 1000
        c == ver.out.confidence
    IN /\ c.den = (IF Len(scores) = 0 THEN 1 ELSE Len(scores))
       /\ c.num = 600 * crossTerm * c.den
                    + 400 * (IF Len(scores) = 0 THEN 500 ELSE Sum[Len(scores)])
       /\ 0 <= c.num /\ c.num <= 1000000 * c.den
       /\ (ver.results = <<>> => c.num = 200000 * c.den)

\* three cross-references with mean credibility 0.8 gave 0.86
C11_Witness ==
  /\ ver.done
  /\ Len(ver.out.cross_references) = 3
  /\ Len(ver.out.credibility_scores) = 2
  /\ \A n \in 1..2 : ver.out.credibility_scores[n].credibility = 800
  /\ ver.out.confidence.num = 860000 * ver.out.confidence.den

----------------------------------------------------------------------------
(* Failures and fallbacks of research() *)

\* the call stored nothing: no history entry, no cache record, no file
LeftNothing(c) ==
  /\ c \notin Range(history)
  /\ \A k \in DOMAIN cache : cache[k].data # c
  /\ \A k \in DOMAIN files : files[k].data # c
  /\ \A k \in DOMAIN resultFiles : resultFiles[k] # c

\* C12: a research call that failed (at the validation, or because a stage
\* threw) has emitted research:error last and never research:complete, has
\* returned no context, ran no stage after the one that threw (no synthesis,
\* no cache write, no persistence), has stored nothing, and does nothing more.
C12_FailureAborts ==
  /\ [](\A c \in Calls :
          pc[c] = "failed"
          => /\ events[c][Len(events[c])] = "research:error"
             /\ "research:complete" \notin Range(events[c])
             /\ ret[c] = <<>>
             /\ \/ stages[c] = <<>>
                \/ stages[c][Len(stages[c])] \in {"search", "analyze", "verify"}
             /\ Range(stages[c]) \cap {"analysis", "report", "cacheWrite", "persist"} = {}
             /\ ctx[c].analysis = <<>> /\ ctx[c].report = <<>>
             /\ LeftNothing(c))
  /\ [][\A c \in Calls :
          pc[c] = "failed"
          => /\ pc'[c] = "failed"
             /\ UNCHANGED <<events[c], stages[c], ctx[c], ret[c]>>]_vars

\* a call that had passed the validation and analysed a source failed in the
\* verification stage, while the other call completed
C12_Witness ==
  \E c, d \in Calls :
    /\ pc[c] = "failed"
    /\ stages[c] # <<>>
    /\ stages[c][Len(stages[c])] = "verify"
    /\ Len(ctx[c].results) > 0
    /\ pc[d] = "done"

\* C13: a research call that has passed the input validation never fails;
\* when the search, analysis or verification capability throws, the pipeline
\* goes on and the call returns a context with its analysis and its report.
C13_CapabilityFailureAbsorbed ==
  \A c \in Calls :
    (pc[c] # "idle" /\ req[c].topic.type = "string" /\ req[c].topic.val # "")
    => /\ pc[c] # "failed"
       /\ (pc[c] = "done" /\ ret[c] = <<c>>
           => ctx[c].analysis # <<>> /\ ctx[c].report # <<>>)

\* the call ran the pipeline to its end and returned its own context
Completed(c) == pc[c] = "done" /\ ret[c] = <<c>>

\* C14: when queryLLM cannot answer (no API key, a provider other than openai,
\* or the request failing), a call that reaches the synthesis still completes:
\* it emits research:complete and returns a context whose analysis is
\* 'Analysis could not be generated' and whose report is 'Report could not be
\* generated' with no citations; no call fails in or after the synthesis.
C14_SynthesisFailureDegrades ==
  \A c \in Calls :
    (config.apiKey = "" \/ config.provider # "openai" \/ ~env.llmUp)
    => /\ (pc[c] = "failed" => "analysis" \notin Range(stages[c]))
       /\ (Completed(c)
           => /\ events[c][Len(events[c])] = "research:complete"
              /\ ctx[c].analysis =
                   << [summary |-> "Analysis could not be generated",
                       keyPoints |-> <<>>] >>
              /\ ctx[c].report =
                   << [content |-> "Report could not be generated",
                       citations |-> <<>>] >>)

\* with an API key and an unsupported provider a call analysed sources and
\* completed with the two placeholders
C14_Witness ==
  \E c \in Calls :
    /\ Completed(c)
    /\ config.apiKey # "" /\ config.provider # "openai"
    /\ Len(ctx[c].results) > 0
    /\ ctx[c].report[1].content = "Report could not be generated"
    /\ events[c][Len(events[c])] = "research:complete"

\* C15: when the cache file or the result file cannot be written, the step
\* that gets the failure leaves the in-memory cache as it is and goes on (to
\* the persistence, or to research:complete and the return of the full
\* context); no call fails because of it.
C15_StorageFailureSwallowed ==
  /\ [](\A c \in Calls :
          (~env.cacheDirOk \/ ~env.resultDirOk)
          => /\ (pc[c] = "failed" => stages[c] = <<>>)
             /\ (pc[c] = "done" /\ "report" \in Range(stages[c])
                 => /\ ret[c] = <<c>>
                    /\ events[c][Len(events[c])] = "research:complete"
                    /\ ctx[c].report # <<>>))
  /\ [][\A c \in Calls :
          /\ (pc[c] = "writeCache" /\ pc'[c] # "writeCache" /\ ~env.cacheDirOk)
             => /\ cache' = cache /\ files' = files
                /\ pc'[c] = (IF config.persistResults THEN "persist" ELSE "done")
          /\ (pc[c] = "persist" /\ pc'[c] # "persist" /\ ~env.resultDirOk)
             => /\ cache' = cache /\ resultFiles' = resultFiles
                /\ pc'[c] = "done" /\ ret'[c] = <<c>>]_vars

\* both file writes of a call failed; it completed, returned its context, and
\* its in-memory cache entry is in place
C15_Witness ==
  \E c \in Calls :
    /\ ~env.cacheDirOk /\ ~env.resultDirOk
    /\ Completed(c)
    /\ {"cacheWrite", "persist"} \subseteq Range(stages[c])
    /\ req[c].key \in DOMAIN cache /\ cache[req[c].key].data = c
    /\ files = EmptyMap /\ resultFiles = EmptyMap

\* C16: with research.verificationEnabled false no call ever invokes the
\* verification and no context gets a verification field; with it true every
\* call that got past the per-source loop has invoked it and has the field,
\* which is {status 'not_verified', confidence 0.5, no cross-references} when
\* no verification capability is registered.
C16_VerificationIffEnabled ==
  \A c \in Calls :
    /\ ~config.verificationEnabled
       => "verify" \notin Range(stages[c]) /\ ctx[c].verification = <<>>
    /\ (config.verificationEnabled /\ "analysis" \in Range(stages[c]))
       => /\ "verify" \in Range(stages[c])
          /\ Len(ctx[c].verification) = 1
          /\ "verification" \notin plugins
             => ctx[c].verification[1] =
                  [status |-> "not_verified", confidence |-> [num |-> 500000, den |-> 1],
                   crossReferences |-> 0, factChecks |-> 0, credibility |-> <<>>]

\* a call completed with verification enabled and no verification capability
C16_Witness ==
  \E c \in Calls :
    /\ Completed(c)
    /\ config.verificationEnabled /\ "verification" \notin plugins
    /\ ctx[c].verification[1].status = "not_verified"

\* C17: a call that completed with no search capability registered has exactly
\* one source, the stub; with no analysis capability registered every result
\* has relevance 0.8, quality 0.7 and neutral sentiment; and no call that
\* passed the validation fails unless a registered capability throws.
C17_MissingCapabilityFallback ==
  \A c \in Calls :
    /\ (Completed(c) /\ "search" \notin plugins)
       => /\ Len(ctx[c].sources) = 1
          /\ ctx[c].sources[1].url = "#"
          /\ ctx[c].sources[1].title = "General search results for: " \o req[c].topic.val
    /\ (Completed(c) /\ "analysis" \notin plugins)
       => \A n \in 1..Len(ctx[c].results) :
            /\ ctx[c].results[n].analysis.relevance = 80
            /\ ctx[c].results[n].analysis.quality = 70
            /\ ctx[c].results[n].analysis.sentiment = "neutral"
    /\ (pc[c] = "failed" /\ env.throws = {}) => stages[c] = <<>>

\* with no capability registered a call completed on the stub source and the
\* default analysis
C17_Witness ==
  \E c \in Calls :
    /\ Completed(c)
    /\ plugins = {}
    /\ Len(ctx[c].sources) = 1 /\ ctx[c].sources[1].url = "#"
    /\ Len(ctx[c].results) = 1 /\ ctx[c].results[1].analysis.quality = 70

----------------------------------------------------------------------------
(* More properties of the cache *)

\* C18: getCachedResult reads the file only while the in-memory map holds no
\* entry for the key, and a lookup answered from the file leaves the map
\* without an entry for the key (so the next lookup reads the file again).
C18_FileHitNotPromoted ==
  /\ [](op.pc \in {"getFile", "getUnlink"} => op.key \notin DOMAIN cache)
  /\ [][(op.pc = "getFile" /\ op'.pc = "idle"
         /\ op'.log[Len(op'.log)].data # <<>>)
        => /\ op.key \notin DOMAIN cache'
           /\ op.key \in DOMAIN files'
           /\ op'.log[Len(op'.log)].data = <<files[op.key].data>>]_vars

\* two lookups in a row were answered from the file of a previous session
C18_Witness ==
  /\ op.pc = "idle"
  /\ Len(op.log) = 2
  /\ op.log[1].kind = "get" /\ op.log[2].kind = "get"
  /\ op.log[1].key = op.log[2].key
  /\ op.log[1].data = <<0>> /\ op.log[2].data = <<0>>
  /\ op.log[2].key \notin DOMAIN cache
  /\ op.log[2].key \in DOMAIN files

\* C19: every entry of the in-memory cache is one {data, timestamp} record
\* written by one call: the context of the call that last wrote that key (the
\* last one with that key in the history), stamped no later than now, and
\* with the timestamp that call's cache file carries.
C19_LastWriterWins ==
  \A k \in DOMAIN cache :
    LET writers == {n \in 1..Len(history) : req[history[n]].key = k}
        last == CHOOSE n \in writers : \A m \in writers : m <= n
    IN /\ DOMAIN cache[k] = {"data", "timestamp"}
       /\ writers # {}
       /\ cache[k].data = history[last]
       /\ cache[k].timestamp <= clock
       /\ (k \in DOMAIN files /\ files[k].data = cache[k].data)
          => files[k].timestamp = cache[k].timestamp

\* two overlapping calls with one key both ran the pipeline on a cold cache;
\* the entry is the context of the second to write
C19_Witness ==
  /\ Completed(1) /\ Completed(2)
  /\ req[1].key = req[2].key
  /\ 1 \notin doneBefore[2]
  /\ history = <<1, 2>>
  /\ req[1].key \in DOMAIN cache
  /\ cache[req[1].key].data = 2

\* C20: with persistResults on and the result directory writable, every call
\* that completed the pipeline has its own result file: as many files as
\* completed calls.
C20_OneFilePerCall ==
  (config.persistResults /\ env.resultDirOk)
  => /\ \A c \in Calls :
          Completed(c) => \E f \in DOMAIN resultFiles : resultFiles[f] = c
     /\ Cardinality(DOMAIN resultFiles) >= Cardinality({c \in Calls : Completed(c)})

----------------------------------------------------------------------------
(* updateConfig on its own: updates built section by section *)

\* number of updateConfig calls on the agent
MaxUpdates == 2

\* what an update may give for each section: nothing, a leaf of the section,
\* a new key, an object where the configuration holds an object, an object
\* where it holds an array, a number or a string, an array
LlmUpdates ==
  { <<>>,
    << <<"llm", Obj(<< <<"temperature", Lit("0.7")>> >>)>> >>,
    << <<"llm", Obj(<< <<"temperature", Lit("0.8")>>, <<"model", Str(<<"m">>)>> >>)>> >>,
    << <<"llm", Obj(<< <<"customHeaders",
                         Obj(<< <<"Authorization", Str(<<"k">>)>> >>)>> >>)>> >>,
    << <<"llm", Obj(<< <<"timeout", Obj(<< <<"connect", Lit("5")>> >>)>> >>)>> >> }
ResearchUpdates ==
  { <<>>,
    << <<"research", Obj(<< <<"maxSources", Lit("5")>> >>)>> >>,
    << <<"research", Obj(<< <<"searchEngines", Arr(<< <<"a">> >>)>> >>)>> >>,
    << <<"research", Obj(<< <<"searchEngines",
                              Obj(<< <<"primary", Str(<<"a">>)>> >>)>> >>)>> >>,
    << <<"research", Obj(<< <<"citationStyle",
                              Obj(<< <<"name", Str(<<"m">>)>> >>)>> >>)>> >> }
CustomizationUpdates ==
  { <<>>,
    << <<"customization", Obj(<< <<"tone", Str(<<"c">>)>> >>)>> >>,
    << <<"customization", Obj(<< <<"domainExpertise",
                                   Obj(<< <<"primary", Str(<<"p">>)>> >>)>> >>)>> >> }
ExtraUpdates ==
  { <<>>, << <<"extra", Obj(<< <<"flag", Lit("true")>> >>)>> >> }

NewConfigs ==
  { Obj(a \o b \o c \o d) :
      a \in LlmUpdates, b \in ResearchUpdates, c \in CustomizationUpdates,
      d \in ExtraUpdates }

\* updateConfig(newConfig): this.config = deepMerge(this.config, newConfig),
\* then emit('config:updated')
updateConfig(newConfig) ==
  /\ Len(upd.events) < MaxUpdates
  /\ upd' = [config |-> deepMerge(upd.config, newConfig), before |-> upd.config,
             newConfig |-> newConfig,
             events |-> Append(upd.events, "config:updated")]
  /\ UNCHANGED <<config, env, plugins, initPc, cache, files, resultFiles, history,
                 clock, pc, req, ctx, ret, stamp, stages, events, doneBefore,
                 op, srch, ver, emitter>>

NextConfig == \E newConfig \in NewConfigs : updateConfig(newConfig)

InitConfig ==
  /\ config = ConfigTest /\ env = EnvFresh
  /\ Constructed
  /\ srch = NoSearch
  /\ ver = NoVerify
  /\ upd = NoUpdate

SpecConfig == InitConfig /\ [][NextConfig]_vars

\* the leaves of a value with their paths: every value that is not an object,
\* under the keys that lead to it
RECURSIVE Leaves(_)
Leaves(value) ==
  IF value.t = "object"
  THEN UNION { { << <<value.fields[i][1]>> \o pv[1], pv[2] >> :
                   pv \in Leaves(value.fields[i][2]) } :
               i \in 1..Len(value.fields) }
  ELSE { << <<>>, value >> }

\* value.k1.k2...: undefined where a key is missing on the way
RECURSIVE ValueAt(_, _)
ValueAt(value, path) ==
  IF path = <<>> THEN value
  ELSE IF value.t = "object" /\ Has(value.fields, Head(path))
       THEN ValueAt(Get(value.fields, Head(path)), Tail(path))
       ELSE Undefined

IsPrefix(p, q) == Len(p) <= Len(q) /\ SubSeq(q, 1, Len(p)) = p

\* the update gives a value at the path, above it or below it
Mentioned(path, update) ==
  \E qv \in Leaves(update) : IsPrefix(qv[1], path) \/ IsPrefix(path, qv[1])

\* C21: after updateConfig(newConfig) every leaf value of newConfig is the
\* value at the same path of the configuration, every leaf of the previous
\* configuration at a path newConfig does not mention is unchanged, and one
\* config:updated event was emitted by the call.
C21_DeepMerged ==
  upd.events # <<>> =>
    /\ \A pv \in Leaves(upd.newConfig) : ValueAt(upd.config, pv[1]) = pv[2]
    /\ \A pv \in Leaves(upd.before) :
         ~Mentioned(pv[1], upd.newConfig) => ValueAt(upd.config, pv[1]) = pv[2]
    /\ upd.events[Len(upd.events)] = "config:updated"

----------------------------------------------------------------------------
(* The order of the stages of a research call *)

\* the place of a stage in the pipeline; the cache lookup comes before it
StageRank(stage) ==
  CASE stage = "cache" -> 0
    [] stage = "search" -> 1
    [] stage \in {"extract", "analyze"} -> 2
    [] stage = "verify" -> 3
    [] stage = "analysis" -> 4
    [] stage = "report" -> 5
    [] stage = "cacheWrite" -> 6
    [] stage = "persist" -> 7

\* how far the async function has come
PcRank(at) ==
  CASE at = "idle" -> 0
    [] at \in {"readFile", "unlink"} -> 1
    [] at = "search" -> 2
    [] at = "extract" -> 3
    [] at = "verify" -> 4
    [] at = "analysis" -> 5
    [] at = "report" -> 6
    [] at = "writeCache" -> 7
    [] at = "persist" -> 8
    [] at \in {"done", "failed"} -> 9

\* C22: within one research call the stages run in the order search, the
\* per-source extraction and analysis, verification (only when enabled),
\* analysis synthesis, report synthesis, cache write, persistence,
\* research:complete: a stage has run only once every stage before it had run,
\* no stage other than the per-source pair runs twice, research:complete comes
\* after every stage the configuration asks for, and a call never moves back.
C22_StagesInOrder ==
  /\ [](\A c \in Calls :
         LET st == stages[c]
             ran(stage) == \E n \in 1..Len(st) : st[n] = stage
         IN /\ \A n \in 1..(Len(st) - 1) :
                 \/ StageRank(st[n]) < StageRank(st[n + 1])
                 \/ StageRank(st[n]) = 2 /\ StageRank(st[n + 1]) = 2
            /\ \A n \in 1..Len(st) :
                 /\ st[n] = "extract" => n < Len(st) /\ st[n + 1] = "analyze"
                 /\ st[n] = "analyze" => n > 1 /\ st[n - 1] = "extract"
            /\ (ran("extract") \/ ran("verify") \/ ran("analysis")) => ran("search")
            /\ ran("verify") => config.verificationEnabled
            /\ ran("analysis") => (config.verificationEnabled => ran("verify"))
            /\ ran("report") => ran("analysis")
            /\ ran("cacheWrite") => ran("report") /\ config.cacheEnabled
            /\ ran("persist") =>
                 /\ ran("report") /\ config.persistResults
                 /\ config.cacheEnabled => ran("cacheWrite")
            /\ (\E n \in 1..Len(events[c]) : events[c][n] = "research:complete") =>
                 /\ events[c][Len(events[c])] = "research:complete"
                 /\ pc[c] = "done"
                 /\ ran("search") /\ ran("analysis") /\ ran("report")
                 /\ config.cacheEnabled => ran("cacheWrite")
                 /\ config.persistResults => ran("persist"))
  /\ [][\A c \in Calls :
          /\ PcRank(pc'[c]) >= PcRank(pc[c])
          /\ Len(stages'[c]) >= Len(stages[c])
          /\ SubSeq(stages'[c], 1, Len(stages[c])) = stages[c]]_vars

\* a call went through every stage: two sources extracted and analyzed,
\* verification, both syntheses, the cache write and the persistence
C22_Witness ==
  \E c \in Calls :
    /\ pc[c] = "done"
    /\ stages[c] = <<"cache", "search", "extract", "analyze", "extract", "analyze",
                     "verify", "analysis", "report", "cacheWrite", "persist">>
    /\ events[c] = <<"research:start", "research:complete">>

----------------------------------------------------------------------------
(* The per-source loop *)

\* C23: the results of a call are at most research.maxSources, each built
\* (content extracted, then analyzed) from one of the first maxSources ranked
\* sources of the call, in the order of the ranking; the loop adds one result
\* per iteration, after the results of the sources before it; with
\* maxSources = 0 there is no result.
C23_ResultsCappedAndOrdered ==
  /\ [](\A c \in Calls :
         LET sources == ctx[c].sources
             results == ctx[c].results
             first == IF Len(sources) < config.maxSources
                      THEN Len(sources) ELSE config.maxSources
         IN /\ Len(results) <= config.maxSources
            /\ \E K \in SUBSET (1..first) :
                 [n \in 1..Len(results) |-> results[n].source] = AtPositions(sources, K)
            /\ \A n \in 1..Len(results) :
                 results[n].content = extractContent(results[n].source)
            /\ Len(results) * 2 <= Len(stages[c])
            /\ pc[c] = "done" /\ ret[c] = <<c>> => Len(results) = first)
  /\ [][\A c \in Calls :
          /\ Len(ctx'[c].results) \in {Len(ctx[c].results), Len(ctx[c].results) + 1}
          /\ SubSeq(ctx'[c].results, 1, Len(ctx[c].results)) = ctx[c].results
          /\ ctx[c].results # <<>> => ctx'[c].sources = ctx[c].sources]_vars

\* a call found two sources, ranked them against the order of the engines,
\* and with maxSources = 1 built its one result from the first of the ranking
C23_Witness ==
  \E c \in Calls :
    /\ pc[c] = "done" /\ ret[c] = <<c>>
    /\ config.maxSources = 1
    /\ Len(ctx[c].sources) = 2
    /\ ctx[c].sources[1] = env.engines[2]
    /\ Len(ctx[c].results) = 1
    /\ ctx[c].results[1].source = ctx[c].sources[1]

----------------------------------------------------------------------------
(* Claim extraction *)

\* content.split(/[.!?]+/).map(s => s.trim()): the trimmed segments of a result
Segments(result) ==
  LET pieces == SplitSentences(TextOf(result.content))
  IN [n \in 1..Len(pieces) |-> Trim(pieces[n])]

\* C24: a trimmed segment takes part in cross-referencing and in fact-check
\* flagging exactly when its length is at least 10: a segment with a number or
\* a claim word is listed among the fact checks if and only if it has 10
\* characters or more, two segments of two different results with the same
\* normalized text and 10 characters or more each give a cross-reference, and
\* no listed segment is shorter than 10.
C24_SegmentsOfTenKept ==
  ver.done =>
    LET results == ver.results
        crossRefs == ver.out.cross_references
        factChecks == ver.out.fact_checks
    IN /\ \A i \in 1..Len(results) : \A n \in 1..Len(Segments(results[i])) :
            LET s == Segments(results[i])[n] IN
            (Len(s) >= 10 /\ (HasNumber(s) \/ HasSpecificClaim(s)))
              <=> \E k \in 1..Len(factChecks) :
                    factChecks[k].claim = s /\ factChecks[k].url = results[i].source.url
       /\ \A i, j \in 1..Len(results) :
            \A m \in 1..Len(Segments(results[i])), n \in 1..Len(Segments(results[j])) :
              LET s == Segments(results[i])[m]
                  t == Segments(results[j])[n]
              IN (i # j /\ Len(s) >= 10 /\ Len(t) >= 10
                    /\ normalizeClaim(s) = normalizeClaim(t))
                   => \E k \in 1..Len(crossRefs) : crossRefs[k].claim = normalizeClaim(s)
       /\ \A k \in 1..Len(crossRefs) : \A n \in 1..Len(crossRefs[k].sources) :
            Len(crossRefs[k].sources[n].content) >= 10

----------------------------------------------------------------------------
(* Initialization and the calls *)

\* initializeAgent has gone through every default plugin
PluginsRegistered == initPc > Len(config.defaultPlugins)

\* C25: a research call reads the plugin registry (for its search, analysis
\* or verification capability) only once initializeAgent has finished
\* registering the default plugins.
C25_RegistryReadAfterInit ==
  [][\A c \in Calls :
       (/\ Len(stages'[c]) > Len(stages[c])
        /\ stages'[c][Len(stages'[c])] \in {"search", "analyze", "verify"})
         => PluginsRegistered]_vars

----------------------------------------------------------------------------
(* The two tiers of the cache *)

\* no call is under way
Quiet == \A c \in Calls : pc[c] \in {"idle", "done", "failed"}

\* C26: once the calls have finished, with no failed file write and nothing
\* expired, the payload this.cache holds for a key and the payload in the
\* key's file come from the same research call.
C26_TiersAgree ==
  (Quiet /\ env.cacheDirOk /\ clock = 0) =>
    \A key \in DOMAIN cache :
      /\ \E k \in DOMAIN files : k = key
      /\ files[key].data = cache[key].data

----------------------------------------------------------------------------
(* What a call leaves behind *)

\* the number of entries of researchHistory that call c added
Entries(c) == Cardinality({n \in 1..Len(history) : history[n] = c})

\* C27: a failed research call has added no entry to researchHistory, has
\* written no entry to this.cache or to a cache file and has persisted no
\* result file, and the step in which it fails changes none of them; a call
\* served from the cache has added no history entry; a call that ran the
\* pipeline to its end has added exactly one, so that researchHistory has one
\* entry per call that ran its report stage.
C27_FailedCallLeavesNoTrace ==
  /\ [](/\ \A c \in Calls :
            /\ pc[c] = "failed" =>
                 /\ Entries(c) = 0
                 /\ \A k \in DOMAIN cache : cache[k].data # c
                 /\ \A k \in DOMAIN files : files[k].data # c
                 /\ \A k \in DOMAIN resultFiles : resultFiles[k] # c
            /\ (pc[c] = "done" /\ ret[c] # <<c>>) => Entries(c) = 0
            /\ (pc[c] = "done" /\ ret[c] = <<c>>) => Entries(c) = 1
         /\ Len(history) =
              Cardinality({d \in Calls : \E n \in 1..Len(stages[d]) :
                                           stages[d][n] = "report"}))
  /\ [][\A c \in Calls :
          (pc[c] # "failed" /\ pc'[c] = "failed")
            => UNCHANGED <<history, cache, files, resultFiles>>]_vars

\* with the cache and the persistence enabled, a call that had searched and
\* analysed its sources failed in the verification and left nothing
C27_Witness ==
  \E c \in Calls :
    /\ pc[c] = "failed"
    /\ config.cacheEnabled /\ config.persistResults
    /\ stages[c] # <<>>
    /\ stages[c][Len(stages[c])] = "verify"
    /\ Len(ctx[c].results) = 2
    /\ history = <<>> /\ cache = EmptyMap /\ files = EmptyMap
    /\ resultFiles = EmptyMap

----------------------------------------------------------------------------
(* The events of a research call *)

Terminal == {"research:cache-hit", "research:complete", "research:error"}

\* C28: a research call emits research:start first and once, and then exactly
\* one terminal event, when it settles: research:cache-hit when it is served
\* from the cache, research:complete when the pipeline ran to its end,
\* research:error when it is rejected; so never research:complete together
\* with research:error or with research:cache-hit. Events once emitted stay.
C28_EventProtocol ==
  /\ [](\A c \in Calls :
         LET ev == events[c] IN
         /\ pc[c] = "idle" <=> ev = <<>>
         /\ ev # <<>> => ev[1] = "research:start"
         /\ \A n \in 2..Len(ev) : ev[n] \in Terminal
         /\ Len(ev) <= 2
         /\ Len(ev) = 2 <=> pc[c] \in {"done", "failed"}
         /\ Len(ev) = 2 =>
              /\ ev[2] = "research:error" <=> pc[c] = "failed"
              /\ ev[2] = "research:complete" <=> (pc[c] = "done" /\ ret[c] = <<c>>)
              /\ ev[2] = "research:cache-hit" <=>
                   (pc[c] = "done" /\ ret[c] # <<c>> /\ ret[c] # <<>>)
              /\ ev[2] = "research:complete" <=>
                   \E n \in 1..Len(stages[c]) : stages[c][n] = "report")
  /\ [][\A c \in Calls :
          /\ Len(events'[c]) >= Len(events[c])
          /\ SubSeq(events'[c], 1, Len(events[c])) = events[c]]_vars

\* one call ran the pipeline and completed, the other was served its context
\* from the cache
C28_Witness ==
  \E c, d \in Calls :
    /\ events[c] = <<"research:start", "research:complete">>
    /\ events[d] = <<"research:start", "research:cache-hit">>
    /\ ret[d] = <<c>>

----------------------------------------------------------------------------
(* A client that constructs the agent and then registers its listeners *)

\* the events main() listens to
MainEvents == {"agent:init", "research:start", "research:complete", "research:error"}

\* agent.on(event, listener), at any moment after the constructor has returned
RegisterListener(event) ==
  /\ event \notin emitter.listeners
  /\ emitter' = On(emitter, event)
  /\ UNCHANGED <<config, env, plugins, initPc, cache, files, resultFiles, history,
                 clock, pc, req, ctx, ret, stamp, stages, events, doneBefore,
                 op, srch, ver, upd>>

NextMain ==
  \/ LoadPlugin
  \/ \E event \in MainEvents : RegisterListener(event)

SpecMain == Init /\ [][NextMain]_vars

\* the number of times the listeners of an event were invoked
Heard(event) == Cardinality({n \in 1..Len(emitter.heard) : emitter.heard[n] = event})

\* C29: once the client has registered its agent:init listener and the
\* initialization of the agent is over, that listener has been invoked once.
C29_InitListenerInvoked ==
  ("agent:init" \in emitter.listeners /\ PluginsRegistered) => Heard("agent:init") = 1

\* the offset in results of what engine e answered: the lengths of the answers
\* of the engines registered before it that did not throw
Offset(answers, e) ==
  LET sum[n \in 0..Len(answers)] ==
        IF n = 0 THEN 0
        ELSE sum[n - 1] + (IF answers[n].threw THEN 0 ELSE Len(answers[n].results))
  IN sum[e - 1]

\* C30: search isolates engine failures: whatever engines throw, search does
\* not throw; the list it post-processes holds exactly the results of the
\* engines that did not throw, in the order of registration; its result is that
\* list deduplicated, ranked and filtered by the threshold; and when every
\* engine throws the result is the empty list.
C30_EngineFailuresIsolated ==
  srch.done =>
       LET answers == srch.answers
       IN /\ ~srch.threw
          /\ Len(srch.raw) = Offset(answers, Len(answers) + 1)
          /\ \A e \in DOMAIN answers :
               ~answers[e].threw =>
                 \A k \in DOMAIN answers[e].results :
                   srch.raw[Offset(answers, e) + k] = answers[e].results[k]
          /\ srch.out = FilterQuality(rankResults(deduplicateResults(srch.raw)),
                                      srch.threshold)
          /\ (\A e \in DOMAIN answers : answers[e].threw) => srch.out = <<>>

\* the second engine threw, the first and the third answered, and search
\* returned results
C30_Witness ==
  /\ srch.done
  /\ srch.answers[2].threw
  /\ srch.answers[1].results # <<>> /\ srch.answers[3].results # <<>>
  /\ ~srch.answers[1].threw /\ ~srch.answers[3].threw
  /\ ~srch.threw /\ srch.out # <<>>

====
